---- MODULE Spec2Model ----
(***************************************************************************)
(* Frame ingestion of stream-video-processing: RTSPFrameReader             *)
(* (src/src/ingest/rtsp_reader.py).  One reader instance, its capture-loop *)
(* threads (_run), a lifecycle controller calling start()/stop(), and      *)
(* consumers calling read().                                               *)
(*                                                                         *)
(* Time is time.time() counted in ticks, ticks_per_second of them to the   *)
(* second.  A frame is identified by the tick of its capture; 0 stands for *)
(* None.                                                                   *)
(***************************************************************************)
EXTENDS Naturals, Integers, Sequences, FiniteSets, TLC

---------------------------------------------------------------------------
(* Bounds of the model *)
NumThreads == 2
NumConsumers == 1
NumCallers == 2
MaxClock == 7
MaxRequestFrames == 2
MaxRetries == 3
MaxCalls == 12
MaxFailures == 4

(* Program constants *)
max_failures_before_fallback == 3
max_index == 10
join_timeout == 5

Threads == 1..NumThreads
Consumers == 1..NumConsumers
Callers == 1..NumCallers
None == "None"
NoThread == 0
NoFrame == 0

---------------------------------------------------------------------------
VARIABLES
    \* constructor arguments and the platform (fixed after __init__)
    rtsp_url, target_fps, width, height, camera_name, reconnect_delay,
    fallback_mp4_path, os_name, pnp_devices,
    \* the resolution of the clock
    ticks_per_second,
    \* fields of the reader
    _frame_lock, _latest_frame, _stop_event, _thread, _last_emit_time,
    _using_fallback, _current_source,
    \* activations of _run, one per thread object
    run,
    \* environment
    clock, fallback_exists, open_caps,
    \* callers
    ctl, reader_pc, reader_ret, reader_fresh,
    \* the consumers whose buffer is the very object _latest_frame refers to
    shares_cache,
    \* history: the frame of the last completed cache write
    written,
    \* the /stream request served from this reader and its event generator
    sse,
    \* threads inside start() at the same time: the statement each is at
    starters,
    \* one call of KafkaProducer.send or KinesisProducer.send
    producer,
    \* one call of validate_event
    validation,
    \* the InferenceCapture instance and its calls
    capture

config == <<rtsp_url, target_fps, width, height, camera_name, reconnect_delay,
            fallback_mp4_path, os_name, pnp_devices, ticks_per_second>>
fields == <<_frame_lock, _latest_frame, _stop_event, _thread, _last_emit_time,
            _using_fallback, _current_source>>
readers == <<reader_pc, reader_ret, reader_fresh, shares_cache>>
services == <<producer, validation, capture>>
vars == <<config, fields, run, clock, fallback_exists, open_caps, ctl, readers,
          written, sse, starters, services>>

---------------------------------------------------------------------------
(* Capture handles (cv2.VideoCapture objects) *)

IndexDev(i) == [kind |-> "index", index |-> i, name |-> ""]
NameDev(n) == [kind |-> "name", index |-> 0, name |-> n]
PathDev(s) == [kind |-> "path", index |-> 0, name |-> s]

NoCap == [target |-> PathDev(None), backend |-> None, width |-> 0, height |-> 0]

VideoCapture(target, backend) ==
    [target |-> target, backend |-> backend, width |-> 0, height |-> 0]

\* if self.width: cap.set(WIDTH, self.width); if self.height: cap.set(HEIGHT, ...)
SetHints(c) ==
    [c EXCEPT !.width = IF width # 0 THEN width ELSE @,
              !.height = IF height # 0 THEN height ELSE @]

IsAutoToken(source) == source \in {"auto", "camera:auto"}
IsDigit(source) == source \in {"0", "1"}
ToInt(source) == IF source = "0" THEN 0 ELSE 1

\* str(Path(p).absolute())
Absolute(p) == IF p = "fb.mp4" THEN "/cwd/fb.mp4" ELSE p

\* The device _open_capture opens for a descriptor that is not the discovery token
TargetOf(source) ==
    IF IsDigit(source) THEN IndexDev(ToInt(source))
    ELSE IF os_name = "nt" /\ source = "video=cam" THEN NameDev("cam")
    ELSE PathDev(source)

\* The backend _open_capture tries first
FirstBackend(source) ==
    IF os_name = "nt"
    THEN IF IsDigit(source) THEN "MSMF"
         ELSE IF source = "video=cam" THEN "DSHOW" ELSE "default"
    ELSE "default"

\* Variant: each index is tried with the alternate backend first
ProbePlan_alternate_first ==
    LET nt == os_name = "nt"
        primary == IF nt THEN "MSMF" ELSE "default"
        pref == IF camera_name # None /\ nt
                THEN << [target |-> NameDev(camera_name), backend |-> "DSHOW"] >>
                ELSE << >>
        indices == IF nt
                   THEN [k \in 1..(2 * max_index) |->
                           [target |-> IndexDev((k - 1) \div 2),
                            backend |-> IF k % 2 = 1 THEN "DSHOW" ELSE primary]]
                   ELSE [k \in 1..max_index |->
                           [target |-> IndexDev(k - 1), backend |-> primary]]
        camera_names == IF nt THEN pnp_devices ELSE << >>
        names == [k \in 1..Len(camera_names) |->
                    [target |-> NameDev(camera_names[k]), backend |-> "DSHOW"]]
    IN  pref \o indices \o names

\* The candidates _open_capture_auto probes, in order
ProbePlan ==
    LET nt == os_name = "nt"
        primary == IF nt THEN "MSMF" ELSE "default"
        pref == IF camera_name # None /\ nt
                THEN << [target |-> NameDev(camera_name), backend |-> "DSHOW"] >>
                ELSE << >>
        indices == IF nt
                   THEN [k \in 1..(2 * max_index) |->
                           [target |-> IndexDev((k - 1) \div 2),
                            backend |-> IF k % 2 = 1 THEN primary ELSE "DSHOW"]]
                   ELSE [k \in 1..max_index |->
                           [target |-> IndexDev(k - 1), backend |-> primary]]
        camera_names == IF nt THEN pnp_devices ELSE << >>
        names == [k \in 1..Len(camera_names) |->
                    [target |-> NameDev(camera_names[k]), backend |-> "DSHOW"]]
    IN  pref \o indices \o names

---------------------------------------------------------------------------
(* Threads *)

Unborn ==
    [pc |-> "unborn", opc |-> "none", probe_i |-> 0, cap |-> NoCap,
     consecutive_failures |-> 0, now |-> 0, frame |-> NoFrame, wake |-> 0,
     fails_since_ok |-> 0, fails_since_reset |-> 0]

\* Thread.is_alive(): started and not yet ended
is_alive(t) == run[t].pc \notin {"unborn", "created", "done"}

\* threading.Lock: who holds it
Free == [by |-> "none", id |-> 0]
HeldBy(kind, i) == [by |-> kind, id |-> i]

OpenSites == {"open_initial", "open_fallback", "open_reconnect"}

\* The frame cap.read() delivers at time now
FrameAt(now) == now

\* Variant: the throttle compares with <= instead of <
Throttled_inclusive(now, last_emit_time) ==
    target_fps > 0 /\ (now - last_emit_time) * target_fps <= ticks_per_second

\* Variant: the interval test is made without the test for a positive rate
Throttled_unguarded(now, last_emit_time) ==
    (now - last_emit_time) * target_fps < ticks_per_second

\* self.target_fps > 0 and now - self._last_emit_time < 1.0 / self.target_fps
Throttled(now, last_emit_time) ==
    target_fps > 0 /\ (now - last_emit_time) * target_fps < ticks_per_second

\* No /stream request: the reader is driven by its callers directly
NoRequest ==
    [pc |-> "none", max_frames |-> 0, count |-> 0, frame |-> NoFrame,
     events |-> 0, cause |-> None]

\* No producer in use
NoSend ==
    [pc |-> "none", backend |-> None, max_retries |-> 0,
     retry_backoff_ms |-> 0, serializable |-> TRUE, attempt |-> 0,
     attempts |-> 0, delivered |-> FALSE, errors |-> << >>, slept |-> << >>,
     ret |-> None]

\* No validation in progress
NoValidation == [pc |-> "none"]

\* InferenceCapture(enabled=False, ...): _counter = 0; writes counts the
\* calls that went on to write a capture, last is how the last call ended
NoCapture ==
    [enabled |-> FALSE, every_n |-> 1, _counter |-> 0, writes |-> 0,
     last |-> "none"]

\* A reader with no producer, no validator and capture disabled
ReaderOnly ==
    /\ producer = NoSend
    /\ validation = NoValidation
    /\ capture = NoCapture

---------------------------------------------------------------------------
\* RTSPFrameReader.__init__
Constructed ==
    /\ _frame_lock = Free
    /\ _latest_frame = NoFrame
    /\ _stop_event = FALSE
    /\ _thread = NoThread
    /\ _last_emit_time = 0
    /\ _using_fallback = FALSE
    /\ _current_source = rtsp_url
    /\ run = [t \in Threads |-> Unborn]
    /\ clock = ticks_per_second
    /\ fallback_exists \in BOOLEAN
    /\ fallback_mp4_path = None => ~fallback_exists
    /\ open_caps = 0
    /\ ctl = [pc |-> "idle", deadline |-> 0, during_sleep |-> FALSE,
              ret |-> None]
    /\ reader_pc = [c \in Consumers |-> "idle"]
    /\ reader_ret = [c \in Consumers |-> NoFrame]
    /\ reader_fresh = [c \in Consumers |-> FALSE]
    /\ shares_cache = {}
    /\ written = NoFrame
    /\ starters = [k \in Callers |-> "idle"]

\* The platform and the constructor arguments a deployment passes
Deployed(platforms, urls, rates, delays, fallbacks) ==
    /\ os_name \in platforms
    /\ rtsp_url \in urls
    /\ target_fps \in rates
    /\ reconnect_delay \in delays
    /\ fallback_mp4_path \in fallbacks
    /\ width = 640 /\ height = 480

\* Readers of an explicit URL or device index
Init ==
    /\ Deployed({"posix", "nt"}, {"rtsp://cam", "0"}, {0, 1}, {1, 6},
                {None, "fb.mp4"})
    /\ camera_name = None
    /\ pnp_devices = << >>
    /\ ticks_per_second = 1
    /\ Constructed
    /\ ReaderOnly
    /\ sse = NoRequest

\* Readers of the discovery token or of a device index
InitAuto ==
    /\ Deployed({"posix", "nt"}, {"auto", "0"}, {0}, {1}, {None, "fb.mp4"})
    /\ camera_name \in {None, "cam"}
    /\ pnp_devices \in {<< >>, <<"usbcam">>}
    /\ os_name = "posix" \/ rtsp_url = "0" =>
           camera_name = None /\ pnp_devices = << >>
    /\ ticks_per_second = 1
    /\ Constructed
    /\ ReaderOnly
    /\ sse = NoRequest

\* Readers on a clock of half seconds, reconnecting without delay
InitThrottle ==
    /\ Deployed({"posix"}, {"rtsp://cam"}, {1, 2}, {0}, {None, "fb.mp4"})
    /\ camera_name = None
    /\ pnp_devices = << >>
    /\ ticks_per_second = 2
    /\ Constructed
    /\ ReaderOnly
    /\ sse = NoRequest

\* Readers with consumers
InitRead ==
    /\ Deployed({"nt"}, {"0"}, {0, 1}, {1}, {"fb.mp4"})
    /\ camera_name = None
    /\ pnp_devices = << >>
    /\ ticks_per_second = 1
    /\ Constructed
    /\ ReaderOnly
    /\ sse = NoRequest

\* Readers with consumers that write into the buffers they get
InitCopy ==
    /\ Deployed({"posix"}, {"rtsp://cam"}, {0}, {1}, {"fb.mp4"})
    /\ camera_name = None
    /\ pnp_devices = << >>
    /\ ticks_per_second = 1
    /\ Constructed
    /\ ReaderOnly
    /\ sse = NoRequest

\* Readers whose start() is called by several threads at once
InitRace ==
    /\ Deployed({"posix"}, {"rtsp://cam"}, {0}, {0}, {"fb.mp4"})
    /\ camera_name = None
    /\ pnp_devices = << >>
    /\ ticks_per_second = 1
    /\ Constructed
    /\ ReaderOnly
    /\ sse = NoRequest

\* A Kafka or Kinesis producer and the event handed to its send()
InitSend ==
    /\ Deployed({"posix"}, {"rtsp://cam"}, {0}, {0}, {None})
    /\ camera_name = None
    /\ pnp_devices = << >>
    /\ ticks_per_second = 1
    /\ Constructed
    /\ sse = NoRequest
    /\ validation = NoValidation
    /\ capture = NoCapture
    /\ \E b \in {"kafka", "kinesis"}, m \in (-1)..MaxRetries,
          ms \in {100, 250}, js \in BOOLEAN :
          producer = [NoSend EXCEPT !.pc = "call", !.backend = b,
                                    !.max_retries = m,
                                    !.retry_backoff_ms = ms,
                                    !.serializable = js]

\* A call validate_event(event, strict): whether the event conforms to the
\* schema, whether jsonschema is installed, whether the global validator
\* exists already, how loading the schema file ends if it does not, and
\* whether jsonschema.validate fails with an exception that is not a
\* ValidationError
InitValidate ==
    /\ Deployed({"posix"}, {"rtsp://cam"}, {0}, {0}, {None})
    /\ camera_name = None
    /\ pnp_devices = << >>
    /\ ticks_per_second = 1
    /\ Constructed
    /\ sse = NoRequest
    /\ producer = NoSend
    /\ capture = NoCapture
    /\ \E st \in BOOLEAN, ok \in BOOLEAN, lib \in BOOLEAN, have \in BOOLEAN,
          load \in {"loaded", "FileNotFoundError", "ValueError"},
          bad \in BOOLEAN :
          validation = [pc |-> "call", strict |-> st, valid |-> ok,
                        jsonschema |-> lib, _validator |-> have,
                        load |-> load, fault |-> bad,
                        inner |-> None, ret |-> None, exc |-> None]

\* An InferenceCapture and the calls of its maybe_capture, one after the
\* other
InitCapture ==
    /\ Deployed({"posix"}, {"rtsp://cam"}, {0}, {0}, {None})
    /\ camera_name = None
    /\ pnp_devices = << >>
    /\ ticks_per_second = 1
    /\ Constructed
    /\ sse = NoRequest
    /\ producer = NoSend
    /\ validation = NoValidation
    /\ \E on \in BOOLEAN, n \in (-1)..4 :
          capture = [NoCapture EXCEPT !.enabled = on, !.every_n = n]

\* A /stream request with its max_frames parameter: the handler is about to
\* construct the reader from the settings and to start it; captures are
\* sampled, one call in two
InitStream ==
    /\ Deployed({"posix"}, {"rtsp://cam"}, {2}, {2}, {"fb.mp4"})
    /\ camera_name = None
    /\ pnp_devices = << >>
    /\ ticks_per_second = 1
    /\ Constructed
    /\ producer = NoSend
    /\ validation = NoValidation
    /\ capture = [NoCapture EXCEPT !.enabled = TRUE, !.every_n = 2]
    /\ \E n \in 0..MaxRequestFrames :
          sse = [NoRequest EXCEPT !.pc = "request", !.max_frames = n]

---------------------------------------------------------------------------
(* Lifecycle controller: start() and stop(), called one after the other *)

NewThread ==
    CHOOSE t \in Threads :
        ~is_alive(t) /\ \A u \in Threads : ~is_alive(u) => t <= u

\* Variant: start() begins a new throttle window
start_reset_emit ==
    /\ ctl.pc = "idle"
    /\ IF _thread # NoThread /\ is_alive(_thread)
       THEN UNCHANGED <<_stop_event, _thread, run, _last_emit_time>>
       ELSE /\ \E t \in Threads : ~is_alive(t)
            /\ _stop_event' = FALSE
            /\ _last_emit_time' = 0
            /\ _thread' = NewThread
            /\ run' = [run EXCEPT ![NewThread] =
                          [Unborn EXCEPT !.pc = "open_initial", !.opc = "call"]]
    /\ ctl' = [ctl EXCEPT !.ret = "self"]
    /\ UNCHANGED <<config, services, starters, sse, _frame_lock, _latest_frame,
                   _using_fallback, _current_source, clock, fallback_exists,
                   open_caps, readers, written>>

\* Variant: start() launches a thread without testing for a live one
start_respawn ==
    /\ ctl.pc = "idle"
    /\ \E t \in Threads : ~is_alive(t)
    /\ _stop_event' = FALSE
    /\ _thread' = NewThread
    /\ run' = [run EXCEPT ![NewThread] =
                  [Unborn EXCEPT !.pc = "open_initial", !.opc = "call"]]
    /\ ctl' = [ctl EXCEPT !.ret = "self"]
    /\ UNCHANGED <<config, services, starters, sse, _frame_lock, _latest_frame, _last_emit_time,
                   _using_fallback, _current_source, clock, fallback_exists,
                   open_caps, readers, written>>

\* Variant: start() also resets the source and the fallback flag
start_reinit ==
    /\ ctl.pc = "idle"
    /\ IF _thread # NoThread /\ is_alive(_thread)
       THEN UNCHANGED <<_stop_event, _thread, run, _using_fallback,
                        _current_source>>
       ELSE /\ \E t \in Threads : ~is_alive(t)
            /\ _stop_event' = FALSE
            /\ _using_fallback' = FALSE
            /\ _current_source' = rtsp_url
            /\ _thread' = NewThread
            /\ run' = [run EXCEPT ![NewThread] =
                          [Unborn EXCEPT !.pc = "open_initial", !.opc = "call"]]
    /\ ctl' = [ctl EXCEPT !.ret = "self"]
    /\ UNCHANGED <<config, services, starters, sse, _frame_lock, _latest_frame, _last_emit_time, clock,
                   fallback_exists, open_caps, readers, written>>

\* start(): no-op on a live thread, else clear the stop signal and launch
\* _run; return self
start ==
    /\ ctl.pc = "idle"
    /\ IF _thread # NoThread /\ is_alive(_thread)
       THEN UNCHANGED <<_stop_event, _thread, run>>
       ELSE /\ \E t \in Threads : ~is_alive(t)
            /\ _stop_event' = FALSE
            /\ _thread' = NewThread
            /\ run' = [run EXCEPT ![NewThread] =
                          [Unborn EXCEPT !.pc = "open_initial", !.opc = "call"]]
    /\ ctl' = [ctl EXCEPT !.ret = "self"]
    /\ UNCHANGED <<config, services, starters, sse, _frame_lock, _latest_frame, _last_emit_time,
                   _using_fallback, _current_source, clock, fallback_exists,
                   open_caps, readers, written>>

---------------------------------------------------------------------------
(* start(), statement by statement, called by thread k while other threads *)
(* may be inside start() too                                                *)

\* if self._thread and self._thread.is_alive(): return self
start_check(k) ==
    /\ starters[k] = "idle"
    /\ starters' = [starters EXCEPT ![k] =
                        IF _thread # NoThread /\ is_alive(_thread)
                        THEN "returned" ELSE "clear"]
    /\ UNCHANGED <<config, services, fields, run, clock, fallback_exists, open_caps, ctl,
                   readers, written, sse>>

\* self._stop_event.clear()
start_clear(k) ==
    /\ starters[k] = "clear"
    /\ _stop_event' = FALSE
    /\ starters' = [starters EXCEPT ![k] = "create"]
    /\ UNCHANGED <<config, services, _frame_lock, _latest_frame, _thread, _last_emit_time,
                   _using_fallback, _current_source, run, clock,
                   fallback_exists, open_caps, ctl, readers, written, sse>>

\* self._thread = threading.Thread(target=self._run, daemon=True): a new
\* thread object, not started
start_create(k) ==
    /\ starters[k] = "create"
    /\ \E t \in Threads :
          /\ run[t].pc \in {"unborn", "done"}
          /\ \A u \in Threads : run[u].pc \in {"unborn", "done"} => t <= u
          /\ _thread' = t
          /\ run' = [run EXCEPT ![t] = [Unborn EXCEPT !.pc = "created"]]
    /\ starters' = [starters EXCEPT ![k] = "launch"]
    /\ UNCHANGED <<config, services, _frame_lock, _latest_frame, _stop_event,
                   _last_emit_time, _using_fallback, _current_source, clock,
                   fallback_exists, open_caps, ctl, readers, written, sse>>

\* self._thread.start(): the thread the field refers to now is started, or
\* RuntimeError if another caller has started it; return self
start_launch(k) ==
    /\ starters[k] = "launch"
    /\ IF run[_thread].pc = "created"
       THEN /\ run' = [run EXCEPT ![_thread].pc = "open_initial",
                                  ![_thread].opc = "call"]
            /\ starters' = [starters EXCEPT ![k] = "returned"]
       ELSE /\ run' = run
            /\ starters' = [starters EXCEPT ![k] = "raised"]
    /\ UNCHANGED <<config, services, fields, clock, fallback_exists, open_caps, ctl,
                   readers, written, sse>>

start_concurrent(k) ==
    \/ start_check(k) \/ start_clear(k) \/ start_create(k) \/ start_launch(k)

\* The timeout handed to Thread.join by stop()
JoinDeadline(t0) == t0 + join_timeout * ticks_per_second

\* Variant: stop() releases the capture handle itself
stop_cleans ==
    /\ ctl.pc = "idle"
    /\ _stop_event' = TRUE
    /\ open_caps' = 0
    /\ IF _thread # NoThread
       THEN ctl' = [ctl EXCEPT !.pc = "joining",
                               !.deadline = JoinDeadline(clock),
                               !.during_sleep = run[_thread].pc = "sleeping"]
       ELSE ctl' = [ctl EXCEPT !.ret = None]
    /\ UNCHANGED <<config, services, starters, sse, _frame_lock, _latest_frame, _thread, _last_emit_time,
                   _using_fallback, _current_source, run, clock,
                   fallback_exists, readers, written>>

\* stop(), first half: set the stop signal and enter join(timeout=5)
stop ==
    /\ ctl.pc = "idle"
    /\ _stop_event' = TRUE
    /\ IF _thread # NoThread
       THEN ctl' = [ctl EXCEPT !.pc = "joining",
                               !.deadline = JoinDeadline(clock),
                               !.during_sleep = run[_thread].pc = "sleeping"]
       ELSE ctl' = [ctl EXCEPT !.ret = None]
    /\ UNCHANGED <<config, services, starters, sse, _frame_lock, _latest_frame, _thread, _last_emit_time,
                   _using_fallback, _current_source, run, clock,
                   fallback_exists, open_caps, readers, written>>

\* Variant: stop() clears the stop signal when join has returned
stop_return_clear ==
    /\ ctl.pc = "joining"
    /\ ~is_alive(_thread) \/ clock >= ctl.deadline
    /\ _stop_event' = FALSE
    /\ ctl' = [ctl EXCEPT !.pc = "idle", !.deadline = 0,
                           !.during_sleep = FALSE, !.ret = None]
    /\ UNCHANGED <<config, services, starters, sse, _frame_lock, _latest_frame, _thread, _last_emit_time,
                   _using_fallback, _current_source, run, clock,
                   fallback_exists, open_caps, readers, written>>

\* stop(), second half: join returns when the thread has ended or at the
\* timeout; stop returns None
stop_return ==
    /\ ctl.pc = "joining"
    /\ ~is_alive(_thread) \/ clock >= ctl.deadline
    /\ ctl' = [ctl EXCEPT !.pc = "idle", !.deadline = 0,
                           !.during_sleep = FALSE, !.ret = None]
    /\ UNCHANGED <<config, services, starters, sse, fields, run, clock, fallback_exists, open_caps,
                   readers, written>>

---------------------------------------------------------------------------
(* _open_capture and _open_capture_auto, run by thread t at one of the     *)
(* three call sites of _run                                                *)

\* return cap: back in _run, at the statement after the call
Return(t, c) ==
    run' = [run EXCEPT ![t] =
              [@ EXCEPT !.pc = "check", !.opc = "none", !.probe_i = 0,
                        !.cap = c,
                        !.consecutive_failures =
                            IF run[t].pc = "open_reconnect" THEN @ ELSE 0,
                        !.fails_since_reset = IF run[t].pc = "open_reconnect" THEN @ ELSE 0]]

_open_capture(t) ==
    /\ run[t].pc \in OpenSites
    /\ run[t].opc = "call"
    /\ LET source == _current_source IN
       IF IsAutoToken(source)
       THEN /\ run' = [run EXCEPT ![t].opc = "probe", ![t].probe_i = 1]
            /\ UNCHANGED open_caps
       ELSE LET c == VideoCapture(TargetOf(source), FirstBackend(source)) IN
            /\ open_caps' = open_caps + 1
            /\ IF os_name = "nt" /\ IsDigit(source)
               THEN \E isOpened \in BOOLEAN :
                       IF isOpened
                       THEN Return(t, SetHints(c))
                       ELSE run' = [run EXCEPT ![t].cap = c,
                                               ![t].opc = "msmf_release"]
               ELSE Return(t, SetHints(c))
    /\ UNCHANGED <<config, services, starters, sse, fields, clock, fallback_exists, ctl,
                   readers, written>>

\* cap.release() of the handle MSMF could not open
open_msmf_release(t) ==
    /\ run[t].opc = "msmf_release"
    /\ open_caps' = open_caps - 1
    /\ run' = [run EXCEPT ![t].cap = NoCap, ![t].opc = "dshow"]
    /\ UNCHANGED <<config, services, starters, sse, fields, clock, fallback_exists, ctl,
                   readers, written>>

\* cap = cv2.VideoCapture(source, cv2.CAP_DSHOW)
open_dshow(t) ==
    /\ run[t].opc = "dshow"
    /\ open_caps' = open_caps + 1
    /\ Return(t, SetHints(VideoCapture(TargetOf(_current_source), "DSHOW")))
    /\ UNCHANGED <<config, services, starters, sse, fields, clock, fallback_exists, ctl,
                   readers, written>>

\* one candidate of _open_capture_auto: open, hint, read once
probe(t) ==
    /\ run[t].opc = "probe"
    /\ LET p == ProbePlan[run[t].probe_i]
           c == SetHints(VideoCapture(p.target, p.backend))
       IN  /\ open_caps' = open_caps + 1
           /\ \E ok \in BOOLEAN :
                 IF ok
                 THEN Return(t, c)
                 ELSE run' = [run EXCEPT ![t].cap = c,
                                         ![t].opc = "probe_release"]
    /\ UNCHANGED <<config, services, starters, sse, fields, clock, fallback_exists, ctl,
                   readers, written>>

\* Variant: discovery gives up after the index loop, names are not probed
probe_release_no_names(t) ==
    /\ run[t].opc = "probe_release"
    /\ open_caps' = open_caps - 1
    /\ LET more == /\ run[t].probe_i < Len(ProbePlan)
                   /\ ProbePlan[run[t].probe_i + 1].target.kind = "index"
       IN  run' = [run EXCEPT ![t].cap = NoCap,
                              ![t].probe_i = IF more THEN @ + 1 ELSE @,
                              ![t].opc = IF more THEN "probe"
                                         ELSE "last_resort"]
    /\ UNCHANGED <<config, services, starters, sse, fields, clock, fallback_exists, ctl,
                   readers, written>>

\* cap.release() of a candidate whose read failed, then on to the next one;
\* probe_i stays at the number of candidates probed when none is left
probe_release(t) ==
    /\ run[t].opc = "probe_release"
    /\ open_caps' = open_caps - 1
    /\ run' = [run EXCEPT ![t].cap = NoCap,
                          ![t].probe_i = IF @ < Len(ProbePlan) THEN @ + 1 ELSE @,
                          ![t].opc = IF run[t].probe_i < Len(ProbePlan)
                                     THEN "probe" ELSE "last_resort"]
    /\ UNCHANGED <<config, services, starters, sse, fields, clock, fallback_exists, ctl,
                   readers, written>>

\* return cv2.VideoCapture(0, backend) if backend else cv2.VideoCapture(0)
last_resort(t) ==
    /\ run[t].opc = "last_resort"
    /\ open_caps' = open_caps + 1
    /\ Return(t, VideoCapture(IndexDev(0),
                              IF os_name = "nt" THEN "MSMF" ELSE "default"))
    /\ UNCHANGED <<config, services, starters, sse, fields, clock, fallback_exists, ctl,
                   readers, written>>

---------------------------------------------------------------------------
(* _try_fallback: ok is the value it returns *)

\* Variant: the switch sets the flag and leaves the descriptor as it was
_try_fallback_flag_only(ok) ==
    IF _using_fallback \/ fallback_mp4_path = None
    THEN /\ ok = FALSE
         /\ UNCHANGED <<_current_source, _using_fallback>>
    ELSE IF ~fallback_exists
    THEN /\ ok = FALSE
         /\ UNCHANGED <<_current_source, _using_fallback>>
    ELSE /\ ok = TRUE
         /\ _current_source' = _current_source
         /\ _using_fallback' = TRUE

\* Variant: the switch does not test that the file exists
_try_fallback_unchecked(ok) ==
    IF _using_fallback \/ fallback_mp4_path = None
    THEN /\ ok = FALSE
         /\ UNCHANGED <<_current_source, _using_fallback>>
    ELSE /\ ok = TRUE
         /\ _current_source' = Absolute(fallback_mp4_path)
         /\ _using_fallback' = TRUE

_try_fallback(ok) ==
    IF _using_fallback \/ fallback_mp4_path = None
    THEN /\ ok = FALSE
         /\ UNCHANGED <<_current_source, _using_fallback>>
    ELSE IF ~fallback_exists
    THEN /\ ok = FALSE
         /\ UNCHANGED <<_current_source, _using_fallback>>
    ELSE /\ ok = TRUE
         /\ _current_source' = Absolute(fallback_mp4_path)
         /\ _using_fallback' = TRUE

---------------------------------------------------------------------------
(* _run: the capture loop of thread t *)

\* Variant: the loop gives up once the failure threshold is reached
while_check_giveup(t) ==
    /\ run[t].pc = "check"
    /\ run' = [run EXCEPT ![t].pc =
                  IF \/ _stop_event
                     \/ run[t].consecutive_failures >= max_failures_before_fallback
                  THEN "exit" ELSE "read"]
    /\ UNCHANGED <<config, services, starters, sse, fields, clock, fallback_exists, open_caps, ctl,
                   readers, written>>

\* while not self._stop_event.is_set()
while_check(t) ==
    /\ run[t].pc = "check"
    /\ run' = [run EXCEPT ![t].pc = IF _stop_event THEN "exit" ELSE "read"]
    /\ UNCHANGED <<config, services, starters, sse, fields, clock, fallback_exists, open_caps, ctl, readers, written>>

\* Variant: the failed read is not counted
CountFailure_stuck(n) == n

\* The counter after a failed read
CountFailure(n) == n + 1

\* Variant: the fallback manager is asked once, at the threshold
FallbackDue_once(n) == ~_using_fallback /\ n = max_failures_before_fallback

\* Variant: the fallback manager is asked from the first failure on
FallbackDue_early(n) == ~_using_fallback /\ n >= 1

\* Variant: the threshold compared with > instead of >=
FallbackDue_late(n) == ~_using_fallback /\ n > max_failures_before_fallback

\* Whether the failed read asks the fallback manager
FallbackDue(n) == ~_using_fallback /\ n >= max_failures_before_fallback

\* cap.read() fails: count it, then fallback or reconnect
read_fail(t) ==
    /\ run[t].pc = "read"
    /\ run[t].consecutive_failures < MaxFailures
    /\ LET n == CountFailure(run[t].consecutive_failures) IN
       \E ok \in BOOLEAN :
          /\ IF FallbackDue(n)
             THEN _try_fallback(ok)
             ELSE /\ ok = FALSE
                  /\ UNCHANGED <<_current_source, _using_fallback>>
          /\ run' = [run EXCEPT ![t].consecutive_failures = n,
                                ![t].fails_since_ok = @ + 1,
                                ![t].fails_since_reset = @ + 1,
                                ![t].pc = IF ok THEN "fb_release" ELSE "release"]
    /\ UNCHANGED <<config, services, starters, sse, _frame_lock, _latest_frame, _stop_event, _thread,
                   _last_emit_time, clock, fallback_exists, open_caps, ctl, readers, written>>

\* Variant: a discarded frame still moves the last-emit time
read_ok_touch(t) ==
    /\ run[t].pc = "read"
    /\ IF Throttled(clock, _last_emit_time)
       THEN /\ run' = [run EXCEPT ![t].consecutive_failures = 0,
                                  ![t].fails_since_ok = 0,
                                  ![t].fails_since_reset = 0,
                                  ![t].now = clock,
                                  ![t].pc = "check"]
            /\ _last_emit_time' = clock
       ELSE /\ run' = [run EXCEPT ![t].consecutive_failures = 0,
                                  ![t].fails_since_ok = 0,
                                  ![t].fails_since_reset = 0,
                                  ![t].now = clock,
                                  ![t].frame = FrameAt(clock),
                                  ![t].pc = "lock"]
            /\ UNCHANGED _last_emit_time
    /\ UNCHANGED <<config, services, starters, sse, _frame_lock, _latest_frame, _stop_event, _thread,
                   _using_fallback, _current_source, clock, fallback_exists,
                   open_caps, ctl, readers, written>>

\* cap.read() delivers a frame: reset the counter, take the time, then the
\* throttle
read_ok(t) ==
    /\ run[t].pc = "read"
    /\ IF Throttled(clock, _last_emit_time)
       THEN run' = [run EXCEPT ![t].consecutive_failures = 0,
                               ![t].fails_since_ok = 0,
                               ![t].fails_since_reset = 0,
                               ![t].now = clock,
                               ![t].pc = "check"]
       ELSE run' = [run EXCEPT ![t].consecutive_failures = 0,
                               ![t].fails_since_ok = 0,
                               ![t].fails_since_reset = 0,
                               ![t].now = clock,
                               ![t].frame = FrameAt(clock),
                               ![t].pc = "lock"]
    /\ UNCHANGED <<config, services, starters, sse, fields, clock, fallback_exists, open_caps, ctl,
                   readers, written>>

\* cap.release() before the open on the fallback file
fallback_release(t) ==
    /\ run[t].pc = "fb_release"
    /\ open_caps' = open_caps - 1
    /\ run' = [run EXCEPT ![t].cap = NoCap, ![t].pc = "open_fallback",
                          ![t].opc = "call"]
    /\ UNCHANGED <<config, services, starters, sse, fields, clock, fallback_exists, ctl,
                   readers, written>>

\* Variant: the reconnect forgets cap.release()
reconnect_release_leak(t) ==
    /\ run[t].pc = "release"
    /\ open_caps' = open_caps
    /\ run' = [run EXCEPT ![t].cap = NoCap, ![t].pc = "sleeping",
                          ![t].wake =
                              clock + reconnect_delay * ticks_per_second]
    /\ UNCHANGED <<config, services, starters, sse, fields, clock, fallback_exists, ctl, readers,
                   written>>

\* cap.release(); time.sleep(self.reconnect_delay) begins
reconnect_release(t) ==
    /\ run[t].pc = "release"
    /\ open_caps' = open_caps - 1
    /\ run' = [run EXCEPT ![t].cap = NoCap, ![t].pc = "sleeping",
                          ![t].wake =
                              clock + reconnect_delay * ticks_per_second]
    /\ UNCHANGED <<config, services, starters, sse, fields, clock, fallback_exists, ctl,
                   readers, written>>

\* Variant: the reopen does not wait for the reconnect delay
sleep_end_early(t) ==
    /\ run[t].pc = "sleeping"
    /\ run' = [run EXCEPT ![t].pc = "open_reconnect", ![t].opc = "call",
                          ![t].wake = 0]
    /\ UNCHANGED <<config, services, starters, sse, fields, clock, fallback_exists, open_caps, ctl,
                   readers, written>>

\* time.sleep returns, not before the delay has passed
sleep_end(t) ==
    /\ run[t].pc = "sleeping"
    /\ clock >= run[t].wake
    /\ run' = [run EXCEPT ![t].pc = "open_reconnect", ![t].opc = "call",
                          ![t].wake = 0]
    /\ UNCHANGED <<config, services, starters, sse, fields, clock, fallback_exists, open_caps, ctl, readers, written>>

\* Variant: the cache write does not wait for the lock
write_lock_free(t) ==
    /\ run[t].pc = "lock"
    /\ _frame_lock' = HeldBy("run", t)
    /\ run' = [run EXCEPT ![t].pc = "write"]
    /\ UNCHANGED <<config, services, starters, sse, _latest_frame, _stop_event, _thread, _last_emit_time,
                   _using_fallback, _current_source, clock, fallback_exists,
                   open_caps, ctl, readers, written>>

\* with self._frame_lock: enter
write_lock(t) ==
    /\ run[t].pc = "lock"
    /\ _frame_lock = Free
    /\ _frame_lock' = HeldBy("run", t)
    /\ run' = [run EXCEPT ![t].pc = "write"]
    /\ UNCHANGED <<config, services, starters, sse, _latest_frame, _stop_event, _thread, _last_emit_time,
                   _using_fallback, _current_source, clock, fallback_exists,
                   open_caps, ctl, readers, written>>

\* Variant: the lock is still held when the loop goes on
cache_write_hold(t) ==
    /\ run[t].pc = "write"
    /\ _latest_frame' = run[t].frame
    /\ _frame_lock' = _frame_lock
    /\ reader_fresh' = [c \in Consumers |-> FALSE]
    /\ shares_cache' = {}
    /\ written' = run[t].frame
    /\ run' = [run EXCEPT ![t].pc = "emit"]
    /\ UNCHANGED <<config, services, starters, sse, _stop_event, _thread, _last_emit_time,
                   _using_fallback, _current_source, clock, fallback_exists,
                   open_caps, ctl, reader_pc, reader_ret>>

\* Variant: the cache keeps its first frame instead of the latest
cache_write_if_empty(t) ==
    /\ run[t].pc = "write"
    /\ _latest_frame' = IF _latest_frame = NoFrame THEN run[t].frame
                        ELSE _latest_frame
    /\ _frame_lock' = Free
    /\ reader_fresh' = [c \in Consumers |-> FALSE]
    /\ shares_cache' = {}
    /\ written' = run[t].frame
    /\ run' = [run EXCEPT ![t].pc = "emit"]
    /\ UNCHANGED <<config, services, starters, sse, _stop_event, _thread, _last_emit_time,
                   _using_fallback, _current_source, clock, fallback_exists,
                   open_caps, ctl, reader_pc, reader_ret>>

\* self._latest_frame = frame (the name is bound to the new array, the old
\* array is not written to), and leave the with block
cache_write(t) ==
    /\ run[t].pc = "write"
    /\ _latest_frame' = run[t].frame
    /\ _frame_lock' = Free
    /\ reader_fresh' = [c \in Consumers |-> FALSE]
    /\ shares_cache' = {}
    /\ written' = run[t].frame
    /\ run' = [run EXCEPT ![t].pc = "emit"]
    /\ UNCHANGED <<config, services, starters, sse, _stop_event, _thread, _last_emit_time,
                   _using_fallback, _current_source, clock, fallback_exists,
                   open_caps, ctl, reader_pc, reader_ret>>

\* self._last_emit_time = now
emit(t) ==
    /\ run[t].pc = "emit"
    /\ _last_emit_time' = run[t].now
    /\ run' = [run EXCEPT ![t].pc = "check", ![t].now = 0, ![t].frame = NoFrame]
    /\ UNCHANGED <<config, services, starters, sse, _frame_lock, _latest_frame, _stop_event, _thread,
                   _using_fallback, _current_source, clock, fallback_exists,
                   open_caps, ctl, readers, written>>

\* Variant: the thread ends without the final cap.release()
exit_release_leak(t) ==
    /\ run[t].pc = "exit"
    /\ open_caps' = open_caps
    /\ run' = [run EXCEPT ![t].cap = NoCap, ![t].pc = "done"]
    /\ UNCHANGED <<config, services, starters, sse, fields, clock, fallback_exists, ctl,
                   readers, written>>

\* Variant: the loop clears the cache when it ends
exit_release_clears(t) ==
    /\ run[t].pc = "exit"
    /\ open_caps' = open_caps - 1
    /\ _latest_frame' = NoFrame
    /\ run' = [run EXCEPT ![t].cap = NoCap, ![t].pc = "done"]
    /\ UNCHANGED <<config, services, starters, sse, _frame_lock, _stop_event, _thread, _last_emit_time,
                   _using_fallback, _current_source, clock, fallback_exists,
                   ctl, readers, written>>

\* cap.release() after the loop; the thread ends
exit_release(t) ==
    /\ run[t].pc = "exit"
    /\ open_caps' = open_caps - 1
    /\ run' = [run EXCEPT ![t].cap = NoCap, ![t].pc = "done"]
    /\ UNCHANGED <<config, services, starters, sse, fields, clock, fallback_exists, ctl,
                   readers, written>>

\* _open_capture on an explicit source
open_source(t) ==
    \/ _open_capture(t) \/ open_msmf_release(t) \/ open_dshow(t)

\* _open_capture_auto
discover(t) ==
    \/ probe(t) \/ probe_release(t) \/ last_resort(t)

_run(t) ==
    \/ while_check(t) \/ read_fail(t) \/ read_ok(t)
    \/ fallback_release(t) \/ reconnect_release(t) \/ sleep_end(t)
    \/ write_lock(t) \/ cache_write(t) \/ emit(t) \/ exit_release(t)

---------------------------------------------------------------------------
(* read(), called by consumer c *)

\* with self._frame_lock: enter
read_lock(c) ==
    /\ reader_pc[c] = "idle"
    /\ _frame_lock = Free
    /\ _frame_lock' = HeldBy("read", c)
    /\ reader_pc' = [reader_pc EXCEPT ![c] = "locked"]
    /\ UNCHANGED <<config, services, starters, sse, _latest_frame, _stop_event, _thread, _last_emit_time,
                   _using_fallback, _current_source, run, clock,
                   fallback_exists, open_caps, ctl, reader_ret,
                   reader_fresh, shares_cache, written>>

\* Variant: read() returns the cached array itself, not a copy
read_nocopy(c) ==
    /\ reader_pc[c] = "locked"
    /\ reader_ret' = [reader_ret EXCEPT ![c] = _latest_frame]
    /\ reader_fresh' = [reader_fresh EXCEPT ![c] = TRUE]
    /\ shares_cache' = IF _latest_frame = NoFrame THEN shares_cache \ {c}
                       ELSE shares_cache \cup {c}
    /\ _latest_frame' = _latest_frame
    /\ _frame_lock' = Free
    /\ reader_pc' = [reader_pc EXCEPT ![c] = "idle"]
    /\ UNCHANGED <<config, services, starters, sse, _stop_event, _thread, _last_emit_time,
                   _using_fallback, _current_source, run, clock,
                   fallback_exists, open_caps, ctl, written>>

\* Variant: read() takes the frame out of the cache
read_take(c) ==
    /\ reader_pc[c] = "locked"
    /\ reader_ret' = [reader_ret EXCEPT ![c] = _latest_frame]
    /\ reader_fresh' = [reader_fresh EXCEPT ![c] = TRUE]
    /\ shares_cache' = shares_cache \ {c}
    /\ _latest_frame' = NoFrame
    /\ _frame_lock' = Free
    /\ reader_pc' = [reader_pc EXCEPT ![c] = "idle"]
    /\ UNCHANGED <<config, services, starters, sse, _stop_event, _thread, _last_emit_time,
                   _using_fallback, _current_source, run, clock,
                   fallback_exists, open_caps, ctl, written>>

\* return None, or self._latest_frame.copy(): a new array with the cached
\* content, referred to by the consumer only; leave the with block
read(c) ==
    /\ reader_pc[c] = "locked"
    /\ reader_ret' = [reader_ret EXCEPT ![c] = _latest_frame]
    /\ reader_fresh' = [reader_fresh EXCEPT ![c] = TRUE]
    /\ shares_cache' = shares_cache \ {c}
    /\ _latest_frame' = _latest_frame
    /\ _frame_lock' = Free
    /\ reader_pc' = [reader_pc EXCEPT ![c] = "idle"]
    /\ UNCHANGED <<config, services, starters, sse, _stop_event, _thread, _last_emit_time,
                   _using_fallback, _current_source, run, clock,
                   fallback_exists, open_caps, ctl, written>>

\* The content of a buffer its consumer has written into
Scribbled == MaxClock + 1

\* Consumer c writes into the buffer read() handed to it; every name bound
\* to that array sees the new content
mutate(c) ==
    /\ reader_pc[c] = "idle"
    /\ reader_ret[c] \notin {NoFrame, Scribbled}
    /\ LET holders == IF c \in shares_cache THEN shares_cache ELSE {c} IN
       /\ reader_ret' = [d \in Consumers |->
                            IF d \in holders THEN Scribbled ELSE reader_ret[d]]
       /\ reader_fresh' = [d \in Consumers |->
                              IF d \in holders THEN FALSE ELSE reader_fresh[d]]
       /\ _latest_frame' = IF c \in shares_cache THEN Scribbled
                           ELSE _latest_frame
    /\ UNCHANGED <<config, services, starters, sse, _frame_lock, _stop_event, _thread, _last_emit_time,
                   _using_fallback, _current_source, run, clock,
                   fallback_exists, open_caps, ctl, reader_pc, shares_cache,
                   written>>

---------------------------------------------------------------------------
(* KafkaProducer.send and KinesisProducer.send *)

RECURSIVE Pow2(_)
\* 2 ** k
Pow2(k) == IF k = 0 THEN 1 ELSE 2 * Pow2(k - 1)

\* Variant: the delay grows by retry_backoff_ms with every attempt
Backoff_linear(attempt) == producer.retry_backoff_ms * (attempt + 1)

\* backoff_ms = self.retry_backoff_ms * (2 ** attempt)
Backoff(attempt) == producer.retry_backoff_ms * Pow2(attempt)

\* Variant: one attempt more before giving up
RetryLeft_inclusive(attempt) == attempt <= producer.max_retries

\* if attempt < self.max_retries
RetryLeft(attempt) == attempt < producer.max_retries

\* The statements before the loop: event.to_dict() and, in
\* KinesisProducer.send, json.dumps(event_dict), which raises for an event
\* that json cannot encode; then range(self.max_retries + 1) is entered, or
\* not when it is empty
send_prepare ==
    /\ producer.pc = "call"
    /\ producer' =
          IF producer.backend = "kinesis" /\ ~producer.serializable
          THEN [producer EXCEPT !.pc = "raised"]
          ELSE IF producer.max_retries + 1 <= 0
          THEN [producer EXCEPT !.pc = "returned", !.ret = FALSE]
          ELSE [producer EXCEPT !.pc = "attempt", !.attempt = 0]
    /\ UNCHANGED <<config, starters, fields, run, clock, fallback_exists,
                   open_caps, ctl, readers, written, sse, validation, capture>>

\* The outcomes of one delivery attempt: the Kafka serializer fails inside
\* producer.send for an event json cannot encode
Outcomes ==
    IF producer.backend = "kafka" /\ ~producer.serializable
    THEN {"other"}
    ELSE {"ok", "retryable", "other"}

\* One pass of the try block: the delivery attempt and its except clauses
send_attempt ==
    /\ producer.pc = "attempt"
    /\ \E outcome \in Outcomes :
          LET p == [producer EXCEPT !.attempts = @ + 1,
                                    !.errors = Append(@, outcome)]
          IN  producer' =
                IF outcome = "ok"
                THEN [p EXCEPT !.pc = "returned", !.ret = TRUE,
                               !.delivered = TRUE]
                ELSE IF outcome = "retryable"
                THEN IF RetryLeft(producer.attempt)
                     THEN [p EXCEPT !.pc = "backoff"]
                     ELSE [p EXCEPT !.pc = "returned", !.ret = FALSE]
                ELSE [p EXCEPT !.pc = "returned", !.ret = FALSE]
    /\ UNCHANGED <<config, starters, fields, run, clock, fallback_exists,
                   open_caps, ctl, readers, written, sse, validation, capture>>

\* time.sleep(backoff_ms / 1000.0), then the next value of attempt
send_backoff ==
    /\ producer.pc = "backoff"
    /\ producer' = [producer EXCEPT
                        !.slept = Append(@, Backoff(producer.attempt)),
                        !.attempt = @ + 1,
                        !.pc = "attempt"]
    /\ UNCHANGED <<config, starters, fields, run, clock, fallback_exists,
                   open_caps, ctl, readers, written, sse, validation, capture>>

send ==
    \/ send_prepare \/ send_attempt \/ send_backoff

---------------------------------------------------------------------------
(* validate_event and InferenceEventValidator *)

\* validator = get_validator(): the global validator, created at the first
\* call by loading the schema file, which may fail
get_validator ==
    /\ validation.pc = "call"
    /\ validation' =
          IF validation._validator \/ validation.load = "loaded"
          THEN [validation EXCEPT !._validator = TRUE, !.pc = "validate"]
          ELSE [validation EXCEPT !.pc = "raised", !.exc = validation.load]
    /\ UNCHANGED <<config, starters, fields, run, clock, fallback_exists,
                   open_caps, ctl, readers, written, sse, producer, capture>>

\* Variant: an unexpected exception leaves validate as it is
validate_unwrapped ==
    /\ validation.pc = "validate"
    /\ validation' =
          [validation EXCEPT
              !.pc = "validated",
              !.inner =
                 IF ~validation.jsonschema THEN "True"
                 ELSE IF validation.fault THEN "Exception"
                 ELSE IF ~validation.valid THEN "SchemaValidationError"
                 ELSE "True"]
    /\ UNCHANGED <<config, starters, fields, run, clock, fallback_exists,
                   open_caps, ctl, readers, written, sse, producer, capture>>

\* InferenceEventValidator.validate: True, or SchemaValidationError raised
\* from ValidationError and from any other exception
validate ==
    /\ validation.pc = "validate"
    /\ validation' =
          [validation EXCEPT
              !.pc = "validated",
              !.inner =
                 IF ~validation.jsonschema THEN "True"
                 ELSE IF validation.fault THEN "SchemaValidationError"
                 ELSE IF ~validation.valid THEN "SchemaValidationError"
                 ELSE "True"]
    /\ UNCHANGED <<config, starters, fields, run, clock, fallback_exists,
                   open_caps, ctl, readers, written, sse, producer, capture>>

\* The caller of validate: validate_event itself if strict, else
\* validate_or_warn, which turns SchemaValidationError into False
validate_event ==
    /\ validation.pc = "validated"
    /\ validation' =
          IF validation.inner = "True"
          THEN [validation EXCEPT !.pc = "returned", !.ret = TRUE]
          ELSE IF ~validation.strict
                  /\ validation.inner = "SchemaValidationError"
          THEN [validation EXCEPT !.pc = "returned", !.ret = FALSE]
          ELSE [validation EXCEPT !.pc = "raised", !.exc = validation.inner]
    /\ UNCHANGED <<config, starters, fields, run, clock, fallback_exists,
                   open_caps, ctl, readers, written, sse, producer, capture>>

NextValidate ==
    \/ get_validator \/ validate \/ validate_event

---------------------------------------------------------------------------
(* InferenceCapture.maybe_capture *)

\* Variant: the first call of every n is the one that is written
Skips_first(counter) ==
    capture.every_n > 1 /\ (counter % capture.every_n) # 1

\* if self.every_n > 1 and (self._counter % self.every_n) != 0: return
Skips(counter) ==
    capture.every_n > 1 /\ (counter % capture.every_n) # 0

\* One call of maybe_capture with an image: nothing if disabled; else count
\* the call, return if it is not sampled, else write the capture, where an
\* exception is logged and not raised
maybe_capture ==
    IF ~capture.enabled
    THEN capture' = [capture EXCEPT !.last = "disabled"]
    ELSE /\ capture._counter < MaxCalls
         /\ LET counter == capture._counter + 1 IN
            IF Skips(counter)
            THEN capture' = [capture EXCEPT !._counter = counter,
                                           !.last = "skipped"]
            ELSE \E ok \in BOOLEAN :
                    capture' = [capture EXCEPT
                                   !._counter = counter,
                                   !.writes = @ + 1,
                                   !.last = IF ok THEN "written" ELSE "failed"]

\* capture.maybe_capture(...) called on its own
capture_call ==
    /\ maybe_capture
    /\ UNCHANGED <<config, starters, fields, run, clock, fallback_exists,
                   open_caps, ctl, readers, written, sse, producer, validation>>

---------------------------------------------------------------------------
(* GET /stream: the handler and its event generator *)

\* return StreamingResponse(event_generator(), ...): the reader has been
\* started, the response begins to iterate the generator; count = 0
stream_response ==
    /\ sse.pc = "request"
    /\ ctl.ret = "self"
    /\ sse' = [sse EXCEPT !.pc = "read", !.count = 0]
    /\ UNCHANGED <<config, services, starters, fields, run, clock, fallback_exists, open_caps, ctl,
                   readers, written>>

\* Variant: a frame the generator has seen already counts as no frame
gen_read_fresh_only ==
    /\ sse.pc = "read"
    /\ _frame_lock = Free
    /\ sse' = [sse EXCEPT !.frame = _latest_frame,
                          !.pc = IF _latest_frame \in {NoFrame, sse.frame}
                                 THEN "sleep" ELSE "infer"]
    /\ UNCHANGED <<config, services, starters, fields, run, clock, fallback_exists, open_caps, ctl,
                   readers, written>>

\* frame = reader.read(): the cached frame is copied under the lock;
\* if frame is None the generator goes to sleep
gen_read ==
    /\ sse.pc = "read"
    /\ _frame_lock = Free
    /\ sse' = [sse EXCEPT !.frame = _latest_frame,
                          !.pc = IF _latest_frame = NoFrame THEN "sleep"
                                 ELSE "infer"]
    /\ UNCHANGED <<config, services, starters, fields, run, clock, fallback_exists, open_caps, ctl,
                   readers, written>>

\* time.sleep(0.1); continue
gen_sleep ==
    /\ sse.pc = "sleep"
    /\ sse' = [sse EXCEPT !.pc = "read"]
    /\ UNCHANGED <<config, services, starters, fields, run, clock, fallback_exists, open_caps, ctl,
                   readers, written>>

\* preds = predict_bgr(...), which may raise; the payload is built
gen_infer ==
    /\ sse.pc = "infer"
    /\ \E raised \in BOOLEAN :
          sse' = IF raised
                 THEN [sse EXCEPT !.pc = "finally", !.cause = "exception"]
                 ELSE [sse EXCEPT !.pc = "capture"]
    /\ UNCHANGED <<config, services, starters, fields, run, clock, fallback_exists, open_caps, ctl,
                   readers, written>>

\* capture.maybe_capture(image_bgr=frame, ...)
gen_capture ==
    /\ sse.pc = "capture"
    /\ maybe_capture
    /\ sse' = [sse EXCEPT !.pc = "yield"]
    /\ UNCHANGED <<config, starters, fields, run, clock, fallback_exists,
                   open_caps, ctl, readers, written, producer, validation>>

\* yield f"data: {json.dumps(payload)}\n\n": json.dumps may raise; if not,
\* one event goes to the client and the generator is suspended at the yield
gen_yield ==
    /\ sse.pc = "yield"
    /\ sse.events <= MaxRequestFrames
    /\ \E raised \in BOOLEAN :
          sse' = IF raised
                 THEN [sse EXCEPT !.pc = "finally", !.cause = "exception"]
                 ELSE [sse EXCEPT !.events = @ + 1, !.pc = "suspended"]
    /\ UNCHANGED <<config, services, starters, fields, run, clock, fallback_exists, open_caps, ctl,
                   readers, written>>

\* Variant: the limit compared with > instead of >=
BreakDue_late(count) == sse.max_frames # 0 /\ count > sse.max_frames

\* if max_frames and count >= max_frames
BreakDue(count) == sse.max_frames # 0 /\ count >= sse.max_frames

\* The response asks for the next event: count += 1, then break or loop
gen_resume ==
    /\ sse.pc = "suspended"
    /\ sse' = IF BreakDue(sse.count + 1)
              THEN [sse EXCEPT !.count = @ + 1, !.pc = "finally",
                               !.cause = "break"]
              ELSE [sse EXCEPT !.count = @ + 1, !.pc = "read"]
    /\ UNCHANGED <<config, services, starters, fields, run, clock, fallback_exists, open_caps, ctl,
                   readers, written>>

\* Variant: the loop is not in a try block, closing ends the generator
gen_close_no_finally ==
    /\ sse.pc = "suspended"
    /\ sse' = [sse EXCEPT !.pc = "ended", !.cause = "closed"]
    /\ UNCHANGED <<config, services, starters, fields, run, clock, fallback_exists, open_caps, ctl,
                   readers, written>>

\* The client has gone: the generator is closed at the yield
gen_close ==
    /\ sse.pc = "suspended"
    /\ sse' = [sse EXCEPT !.pc = "finally", !.cause = "closed"]
    /\ UNCHANGED <<config, services, starters, fields, run, clock, fallback_exists, open_caps, ctl,
                   readers, written>>

\* finally: reader.stop() has returned; the generator is finished
gen_end ==
    /\ sse.pc = "finally"
    /\ ctl.pc = "idle"
    /\ _stop_event
    /\ sse' = [sse EXCEPT !.pc = "ended"]
    /\ UNCHANGED <<config, services, starters, fields, run, clock, fallback_exists, open_caps, ctl,
                   readers, written>>

event_generator ==
    \/ gen_read \/ gen_sleep \/ gen_infer \/ gen_capture
    \/ gen_yield \/ gen_resume \/ gen_close \/ gen_end

---------------------------------------------------------------------------
(* Environment *)

\* A second of wall-clock time passes: while a capture loop is blocked in
\* cap.read() or in time.sleep, or while no capture loop runs and no call is
\* in progress (the other steps take no time).  join does not outlast its
\* timeout.
Tick ==
    /\ clock < MaxClock
    /\ \/ \E t \in Threads : run[t].pc = "read"
       \/ \E t \in Threads : run[t].pc = "sleeping" /\ clock < run[t].wake
       \/ ctl.pc = "idle" /\ \A t \in Threads : ~is_alive(t)
    /\ ~(ctl.pc = "joining" /\ clock >= ctl.deadline)
    /\ clock' = clock + 1
    /\ UNCHANGED <<config, services, starters, sse, fields, run, fallback_exists, open_caps, ctl, readers, written>>

\* The fallback file is created or removed
FileChange ==
    /\ fallback_mp4_path # None
    /\ \E t \in Threads : run[t].pc = "read"
    /\ fallback_exists' = ~fallback_exists
    /\ UNCHANGED <<config, services, starters, sse, fields, run, clock, open_caps, ctl,
                   readers, written>>

---------------------------------------------------------------------------
Lifecycle ==
    \/ start
    \/ stop
    \/ stop_return

Environment ==
    \/ Tick
    \/ FileChange

Next ==
    \/ Lifecycle
    \/ \E t \in Threads : open_source(t)
    \/ \E t \in Threads : _run(t)
    \/ Environment

NextAuto ==
    \/ Lifecycle
    \/ \E t \in Threads : open_source(t)
    \/ \E t \in Threads : discover(t)
    \/ \E t \in Threads : _run(t)
    \/ Environment

NextRead ==
    \/ Next
    \/ \E c \in Consumers : read_lock(c)
    \/ \E c \in Consumers : read(c)

NextCopy ==
    \/ Lifecycle
    \/ \E t \in Threads : _open_capture(t)
    \/ \E t \in Threads : _run(t)
    \/ Environment
    \/ \E c \in Consumers : read_lock(c)
    \/ \E c \in Consumers : read(c)
    \/ \E c \in Consumers : mutate(c)

NextThrottle ==
    \/ Lifecycle
    \/ \E t \in Threads : _open_capture(t)
    \/ \E t \in Threads : _run(t)
    \/ Environment

\* One /stream request: the handler starts the reader, the generator's
\* finally block stops it
NextStream ==
    \/ sse.pc = "request" /\ ctl.ret = None /\ start
    \/ stream_response
    \/ event_generator
    \/ sse.pc = "finally" /\ ~_stop_event /\ stop
    \/ stop_return
    \/ \E t \in Threads : _open_capture(t)
    \/ \E t \in Threads : _run(t)
    \/ Tick

\* Several threads call start() at once; stop() is called once they are
\* through
NextRace ==
    \/ \E k \in Callers : start_concurrent(k)
    \/ (\A k \in Callers : starters[k] \in {"returned", "raised"}) /\ stop
    \/ stop_return
    \/ \E t \in Threads : _open_capture(t)
    \/ \E t \in Threads : _run(t)

Spec == Init /\ [][Next]_vars
SpecAuto == InitAuto /\ [][NextAuto]_vars
SpecRead == InitRead /\ [][NextRead]_vars
SpecCopy == InitCopy /\ [][NextCopy]_vars
SpecThrottle == InitThrottle /\ [][NextThrottle]_vars
SpecStream == InitStream /\ [][NextStream]_vars
SpecRace == InitRace /\ [][NextRace]_vars
SpecSend == InitSend /\ [][send]_vars
SpecValidate == InitValidate /\ [][NextValidate]_vars
SpecCapture == InitCapture /\ [][capture_call]_vars

\* The generator's own statements are executed, the client asks for the
\* next event, the frame lock is obtained by read() when it is free again
\* and again, and the capture loop leaves the with block once it is in it;
\* nothing else is asked of the capture loop
StreamFair ==
    /\ SF_vars(gen_read)
    /\ WF_vars(gen_sleep) /\ WF_vars(gen_infer) /\ WF_vars(gen_capture)
    /\ WF_vars(gen_yield) /\ WF_vars(gen_resume)
    /\ WF_vars(sse.pc = "finally" /\ ~_stop_event /\ stop)
    /\ \A t \in Threads : WF_vars(cache_write(t))

SpecStreamFair == InitStream /\ [][NextStream]_vars /\ StreamFair

\* Every blocking call of the capture loop returns and the loop thread is
\* scheduled: a step of _run or of the source opener that stays possible is
\* taken
SpecFair ==
    /\ InitThrottle
    /\ [][NextThrottle]_vars
    /\ \A t \in Threads : WF_vars(_run(t) \/ _open_capture(t))

---------------------------------------------------------------------------
(* Steps of the capture loop, as the properties below name them *)

\* cap.read() of thread t fails in this step
FailedRead(t) == run[t].pc = "read" /\ run'[t].pc \in {"release", "fb_release"}

\* cap.read() of thread t delivers a frame in this step
GoodRead(t) == run[t].pc = "read" /\ run'[t].pc \in {"check", "lock"}

\* The capture time of a cached frame (0 while nothing is cached)
CaptureTime(frame) == frame

\* No fallback file to switch to
NoFallbackFile == fallback_mp4_path = None \/ ~fallback_exists

---------------------------------------------------------------------------
\* C1: at every instant at most one capture handle opened by the reader is
\* open and unreleased, whatever the capture loop is doing (initial open,
\* reconnect, fallback switch, discovery probing, exit on stop).
C1_AtMostOneOpenHandle == open_caps <= 1

\* A discovered source failed, the fallback was switched to, and the loop has
\* reconnected after a further failure: exactly one handle is open.
C1_Witness ==
    /\ rtsp_url = "auto"
    /\ _using_fallback
    /\ open_caps = 1
    /\ \E t \in Threads :
          run[t].pc = "read" /\ run[t].consecutive_failures > 0

\* C2: with the fallback file present, the third consecutive failed read
\* switches the descriptor from the original source to the absolute fallback
\* path; the descriptor changes only in that way, hence once, and never
\* changes after the switch however many failures follow.
C2_FallbackSwitchesExactlyOnce ==
    [][ /\ \A t \in Threads :
              ( /\ FailedRead(t)
                /\ run[t].consecutive_failures + 1 >= max_failures_before_fallback
                /\ ~_using_fallback
                /\ ~NoFallbackFile )
              => /\ _current_source' = Absolute(fallback_mp4_path)
                 /\ _current_source' # _current_source
        /\ _current_source' # _current_source
              => _current_source = rtsp_url /\ ~_using_fallback /\ _using_fallback'
        /\ _using_fallback => _current_source' = _current_source
      ]_vars

\* The switch has happened and three more reads have failed since.
C2_Witness ==
    /\ _using_fallback
    /\ _current_source = Absolute(fallback_mp4_path)
    /\ _current_source # rtsp_url
    /\ \E t \in Threads :
          run[t].consecutive_failures >= max_failures_before_fallback

\* C3: once the using-fallback flag is true it stays true, across failures,
\* successes, stop() and a new start().
C3_FallbackFlagMonotonic == [][_using_fallback => _using_fallback']_vars

\* A new loop thread has been started while the flag is set.
C3_Witness ==
    /\ _using_fallback
    /\ \E t \in Threads : run[t].pc = "open_initial"

\* C4: while the fallback path is unset or the file does not exist, no step
\* changes the descriptor or the flag, a failed read is followed by the
\* reconnect (release, delay, reopen), the reopen is on the original
\* descriptor, and the loop leaves its cycle only on the stop signal.
C4_NoSwitchWithoutFallbackFile ==
    [][ NoFallbackFile =>
          /\ UNCHANGED <<_current_source, _using_fallback>>
          /\ ~_using_fallback => _current_source' = rtsp_url
          /\ \A t \in Threads :
                /\ FailedRead(t) => run'[t].pc = "release"
                /\ ( /\ run[t].pc = "open_reconnect"
                     /\ run'[t].pc = "check"
                     /\ ~_using_fallback )
                   => run'[t].cap.target = TargetOf(rtsp_url)
                /\ (is_alive(t) /\ run[t].pc # "exit" /\ run'[t].pc = "exit")
                   => _stop_event
      ]_vars

\* More failures than the threshold, the file missing, and the loop reading
\* again from a handle on the original descriptor.
C4_Witness ==
    /\ fallback_mp4_path # None
    /\ ~fallback_exists
    /\ ~_using_fallback
    /\ _current_source = rtsp_url
    /\ \E t \in Threads :
          /\ run[t].pc = "read"
          /\ run[t].consecutive_failures > max_failures_before_fallback
          /\ run[t].cap.target = TargetOf(rtsp_url)

\* C5 as stated: at every loop-iteration boundary the counter equals the
\* number of consecutive failed reads since the last successful read (or
\* since the loop began).
C5_CounterIsFailuresSinceSuccess ==
    \A t \in Threads :
        run[t].pc = "check" =>
            run[t].consecutive_failures = run[t].fails_since_ok

\* C5 as amended: after a read the counter is 0 if the read succeeded and
\* its previous value plus 1 if it failed; at every loop-iteration boundary
\* it equals the number of consecutive failed reads since the last
\* successful read, the last fallback activation or the start of the loop.
C5_CounterFollowsReads ==
    /\ [](\A t \in Threads :
            run[t].pc = "check" =>
                run[t].consecutive_failures = run[t].fails_since_reset)
    /\ [][\A t \in Threads :
            /\ GoodRead(t) => run'[t].consecutive_failures = 0
            /\ FailedRead(t) =>
                  run'[t].consecutive_failures = run[t].consecutive_failures + 1
         ]_vars

\* The fallback was activated after three failures and one more read failed.
C5_Witness ==
    /\ _using_fallback
    /\ \E t \in Threads :
          /\ run[t].pc = "check"
          /\ run[t].consecutive_failures = 1
          /\ run[t].fails_since_ok = max_failures_before_fallback + 1

\* C6: with target rate R > 0 a frame read at time ti goes to the cache if
\* and only if ti minus the capture time of the cached frame is >= 1/R
\* (a frame exactly at the boundary is cached); a frame that is kept is the
\* next value of the cache.
C6_CachedIffIntervalElapsed ==
    [][\A t \in Threads :
          /\ (GoodRead(t) /\ target_fps > 0) =>
                ( run'[t].pc = "lock" <=>
                    (clock - CaptureTime(_latest_frame)) * target_fps >= 1 )
          /\ (GoodRead(t) /\ run'[t].pc = "lock") =>
                run'[t].frame = FrameAt(clock)
          /\ run[t].pc = "lock" => run'[t].pc \in {"lock", "write"}
          /\ run[t].pc = "write" =>
                \/ run'[t].pc = "write" /\ _latest_frame' = _latest_frame
                \/ run'[t].pc = "emit" /\ _latest_frame' = run[t].frame
      ]_vars

\* Rate 1: a frame was cached, and the frame read exactly one second after
\* it has been cached too.
C6_Witness ==
    /\ target_fps = 1
    /\ _last_emit_time > 0
    /\ \E t \in Threads :
          /\ run[t].pc = "emit"
          /\ _latest_frame = run[t].frame
          /\ run[t].now - _last_emit_time = 1

\* C7: a stop() called during the reconnect sleep returns within the join
\* timeout, and when it returns the capture loop has exited and no handle
\* is open.
C7_StopDuringSleepEndsLoop ==
    [][ (ctl.pc = "joining" /\ ctl'.pc = "idle" /\ ctl.during_sleep) =>
          /\ clock <= ctl.deadline
          /\ ~is_alive(_thread)
          /\ open_caps = 0
      ]_vars

\* C8: the loop reaches its exit (the final release and the end of the
\* thread) only from the loop test and only with the stop signal raised.
C8_ExitOnlyOnStop ==
    [][\A t \in Threads :
          /\ (run[t].pc # "exit" /\ run'[t].pc = "exit") =>
                run[t].pc = "check" /\ _stop_event
          /\ (run[t].pc # "done" /\ run'[t].pc = "done") =>
                run[t].pc = "exit" /\ _stop_event
      ]_vars

\* The loop exits on stop after the fallback was declined at the threshold.
C8_Witness ==
    /\ ~_using_fallback
    /\ _stop_event
    /\ \E t \in Threads :
          /\ run[t].pc = "exit"
          /\ run[t].consecutive_failures >= max_failures_before_fallback

\* C9: a read() returns the frame of the most recent completed cache write,
\* so the frames one consumer gets never go back in capture order.
C9_ReadsNeverGoBack ==
    [][\A c \in Consumers :
          /\ reader_ret'[c] >= reader_ret[c]
          /\ (reader_pc[c] = "locked" /\ reader_pc'[c] = "idle") =>
                reader_ret'[c] = written
      ]_vars

\* A consumer that got a frame is reading again after a newer cache write.
C9_Witness ==
    \E c \in Consumers :
        /\ reader_pc[c] = "locked"
        /\ reader_ret[c] # NoFrame
        /\ reader_ret[c] < written

\* C10: read() changes neither the cached frame nor the stop signal, the
\* failure counter, the last-emit time, the descriptor or the fallback flag,
\* and a consumer that has read holds the cached frame for as long as no
\* cache write follows, so a second read() returns an equal frame.
C10_ReadObservesOnly ==
    /\ [](\A c \in Consumers : reader_fresh[c] => reader_ret[c] = _latest_frame)
    /\ [][\A c \in Consumers :
            reader_pc'[c] # reader_pc[c] =>
                UNCHANGED <<_latest_frame, _stop_event, _last_emit_time,
                            _current_source, _using_fallback, run>>
         ]_vars

\* A consumer that got a frame is reading again with no cache write since.
C10_Witness ==
    \E c \in Consumers :
        /\ reader_pc[c] = "locked"
        /\ reader_fresh[c]
        /\ reader_ret[c] # NoFrame

---------------------------------------------------------------------------
(* Steps of the callers, as the properties below name them *)

\* read() of consumer c returns in this step
ReadReturns(c) == reader_pc[c] = "locked" /\ reader_pc'[c] = "idle"

\* Consumer c writes into its buffer in this step
Scribbles(c) == reader_ret[c] # Scribbled /\ reader_ret'[c] = Scribbled

\* The capture loop of thread t is inside a blocking operation: the handle
\* read, the reconnect sleep, a source open or device discovery
Blocking(t) == run[t].pc \in {"read", "sleeping"} \cup OpenSites

\* A call of the lifecycle controller begins and returns in this step
CallReturns == ctl.pc = "idle" /\ ctl'.pc = "idle" /\ ctl' # ctl

C12_NoneUntilFirstWrite ==
    /\ [](_thread = NoThread => _latest_frame = NoFrame)
    /\ [](_latest_frame = NoFrame <=> written = NoFrame)
    /\ [][ /\ \A c \in Consumers :
                ReadReturns(c) =>
                    (reader_ret'[c] = NoFrame <=> written = NoFrame)
           /\ _latest_frame # NoFrame => _latest_frame' # NoFrame
         ]_vars

\* A started reader whose reads have failed up to the threshold: a consumer
\* reads and the result of its previous read() is None.
C12_Witness ==
    /\ written = NoFrame
    /\ \E t \in Threads :
          /\ run[t].pc = "sleeping"
          /\ run[t].fails_since_ok >= max_failures_before_fallback
    /\ \E c \in Consumers :
          /\ reader_pc[c] = "locked"
          /\ reader_fresh[c]
          /\ reader_ret[c] = NoFrame

\* C13: a cache write and a read() exclude each other: the loop is never
\* inside its write while a consumer is inside read(), the cached frame does
\* not change while a consumer is inside read(), and what read() returns is
\* the cached frame, which is a frame the loop wrote.
C13_WriteAndReadExclusive ==
    /\ [](\A t \in Threads : \A c \in Consumers :
             ~(run[t].pc = "write" /\ reader_pc[c] = "locked"))
    /\ []((_frame_lock.by = "run" <=> \E t \in Threads : run[t].pc = "write")
          /\ (_frame_lock.by = "read" <=>
                 \E c \in Consumers : reader_pc[c] = "locked"))
    /\ [][\A c \in Consumers :
            /\ reader_pc[c] = "locked" => _latest_frame' = _latest_frame
            /\ ReadReturns(c) =>
                  reader_ret'[c] = _latest_frame /\ _latest_frame = written
         ]_vars

\* A consumer is inside read() while the loop waits with a newer frame.
C13_Witness ==
    \E c \in Consumers : \E t \in Threads :
        /\ reader_pc[c] = "locked"
        /\ run[t].pc = "lock"
        /\ _latest_frame # NoFrame
        /\ run[t].frame > _latest_frame

\* C14: while the loop is inside a blocking operation (handle read,
\* reconnect sleep, source open, device discovery) it does not hold the
\* frame lock, so a consumer's read() can take the lock and return.
C14_LockFreeWhileLoopBlocks ==
    \A t \in Threads :
        Blocking(t) =>
            /\ _frame_lock # HeldBy("run", t)
            /\ \A c \in Consumers :
                  reader_pc[c] = "idle" => ENABLED read_lock(c)

\* The loop has cached a frame and is now probing devices on a reconnect.
C14_Witness ==
    /\ _latest_frame # NoFrame
    /\ \E t \in Threads :
          /\ run[t].pc = "open_reconnect"
          /\ run[t].opc = "probe"
          /\ run[t].probe_i > 1

\* C15: start() on a reader whose loop thread is alive spawns no thread,
\* does not clear the stop signal and changes no field, no handle and no
\* cached frame; start() returns the reader itself in every case.
C15_StartIdempotent ==
    [][ /\ (_thread # NoThread /\ is_alive(_thread)) =>
              /\ _thread' = _thread
              /\ \A t \in Threads : ~is_alive(t) => run'[t] = run[t]
              /\ _stop_event => _stop_event'
              /\ CallReturns =>
                    /\ ctl'.ret = "self"
                    /\ UNCHANGED <<config, services, starters, sse, fields, run, clock,
                                   fallback_exists, open_caps, readers,
                                   written>>
        /\ (\E t \in Threads : ~is_alive(t) /\ run'[t].pc = "open_initial")
              => ctl'.ret = "self"
      ]_vars

\* start() has returned on a reader whose stop signal is still raised: the
\* loop thread was alive at the call, and still is.
C15_Witness ==
    /\ ctl.pc = "idle"
    /\ ctl.ret = "self"
    /\ _stop_event
    /\ _thread # NoThread
    /\ is_alive(_thread)

\* C16: after stop() has returned and until a new start() the cache is
\* frozen: stop() does not change the cached frame, and no cache write
\* happens once stop() has returned.
C16_CacheFrozenAfterStop ==
    [][ /\ ctl' # ctl => _latest_frame' = _latest_frame
        /\ (ctl.pc = "idle" /\ ctl.ret = None /\ _stop_event) =>
              _latest_frame' = _latest_frame
      ]_vars

\* C17: once the stop signal is raised the loop opens no new capture handle
\* and starts no new read before it releases its handle and exits.
C17_StopCheckedAtEveryStep ==
    [][ _stop_event =>
          /\ open_caps' <= open_caps
          /\ \A t \in Threads : run'[t].pc = "read" => run[t].pc = "read"
      ]_vars

\* C18: the descriptor is replaced by the fallback path only in the step of
\* a failed read that is at least the third failure in a row with no
\* successful read in between; a first or second failure in a row changes
\* neither the descriptor nor the flag and goes on to the reconnect.
C18_SwitchOnlyAtThreshold ==
    [][ /\ _current_source' # _current_source =>
              /\ _current_source' = Absolute(fallback_mp4_path)
              /\ \E t \in Threads :
                    /\ FailedRead(t)
                    /\ run'[t].pc = "fb_release"
                    /\ run'[t].consecutive_failures
                          >= max_failures_before_fallback
                    /\ run'[t].fails_since_ok = run'[t].consecutive_failures
        /\ \A t \in Threads :
              ( /\ FailedRead(t)
                /\ run'[t].fails_since_ok < max_failures_before_fallback )
              => /\ UNCHANGED <<_current_source, _using_fallback>>
                 /\ run'[t].pc = "release"
      ]_vars

\* The file was missing at the third failure and present at the fourth: the
\* switch has just been made.
C18_Witness ==
    /\ _using_fallback
    /\ \E t \in Threads :
          /\ run[t].pc = "fb_release"
          /\ run[t].fails_since_ok > max_failures_before_fallback

\* C19: on fallback activation the loop releases its handle, opens a handle
\* on the fallback path without passing through the reconnect sleep, and
\* sets the failure counter to 0; with the flag set every open the reader
\* completes (reconnect, or the open of a later start()) is on the absolute
\* fallback path.
C19_OpensUseFallbackPath ==
    [][\A t \in Threads :
          /\ (run[t].pc = "fb_release" /\ run'[t] # run[t]) =>
                /\ run'[t].pc = "open_fallback"
                /\ run'[t].cap = NoCap
                /\ open_caps' = open_caps - 1
          /\ (run[t].pc = "open_fallback" /\ run'[t].pc # "open_fallback") =>
                /\ run'[t].pc = "check"
                /\ run'[t].consecutive_failures = 0
                /\ open_caps' = open_caps + 1
          /\ (_using_fallback /\ run[t].pc \in OpenSites
                /\ run'[t].pc = "check") =>
                run'[t].cap.target = PathDev(Absolute(fallback_mp4_path))
      ]_vars

\* The fallback was activated before any frame was cached, the reader was
\* stopped and started again, and the new loop has opened the fallback path.
C19_Witness ==
    /\ _using_fallback
    /\ written = NoFrame
    /\ \E t \in Threads :
          /\ run[t].pc = "check"
          /\ run[t].fails_since_ok = 0
          /\ run[t].cap.target = PathDev(Absolute(fallback_mp4_path))

\* C20: a successful read inside the throttle interval changes no field of
\* the reader (cached frame, last-emit time), keeps the handle open and goes
\* back to the loop test; the failure counter is 0 after every successful
\* read, kept or discarded.
C20_DiscardLeavesStateAlone ==
    [][\A t \in Threads :
          /\ (GoodRead(t) /\ Throttled(clock, _last_emit_time)) =>
                /\ UNCHANGED <<fields, open_caps, readers, written>>
                /\ run'[t].pc = "check"
                /\ run'[t].cap = run[t].cap
          /\ GoodRead(t) => run'[t].consecutive_failures = 0
      ]_vars

\* A frame read inside the interval has been discarded: the loop is back at
\* its test, the cache holds an older frame and the last-emit time is the
\* time of that older frame.
C20_Witness ==
    /\ target_fps = 1
    /\ _latest_frame # NoFrame
    /\ \E t \in Threads :
          /\ run[t].pc = "check"
          /\ run[t].consecutive_failures = 0
          /\ run[t].cap # NoCap
          /\ run[t].now > _last_emit_time
          /\ _last_emit_time = CaptureTime(_latest_frame)

---------------------------------------------------------------------------
(* Device discovery, as the properties below name it *)

\* The candidates thread t has opened so far in its discovery
Probed(t) ==
    IF run[t].opc = "probe" THEN run[t].probe_i - 1 ELSE run[t].probe_i

\* How many of them were device indices, how many device names
IndexProbes(t) ==
    Cardinality({k \in 1..Probed(t) : ProbePlan[k].target.kind = "index"})
NameProbes(t) ==
    Cardinality({k \in 1..Probed(t) : ProbePlan[k].target.kind = "name"})

\* The device names Get-PnpDevice lists, where there is one to ask
Enumerated == IF os_name = "nt" THEN pnp_devices ELSE << >>

\* The place of a candidate in the order of discovery: the preferred name,
\* index 0 primary, index 0 alternate, index 1 primary, ..., the listed names
Rank(p) ==
    IF p.target.kind = "index"
    THEN 1 + 2 * p.target.index
           + (IF os_name = "nt" /\ p.backend = "DSHOW" THEN 1 ELSE 0)
    ELSE IF p.target.name = camera_name THEN 0
    ELSE 1 + 2 * max_index
           + (CHOOSE k \in 1..Len(Enumerated) :
                 Enumerated[k] = p.target.name)

\* C21: with target rate 0 every successful read goes on to the cache write
\* with the frame just read, whatever the time since the last one, and the
\* write is followed by the update of the last-emit time to the time of the
\* read.
C21_RateZeroKeepsEveryFrame ==
    [][\A t \in Threads :
          /\ (GoodRead(t) /\ target_fps = 0) =>
                /\ run'[t].pc = "lock"
                /\ run'[t].frame = FrameAt(clock)
                /\ run'[t].now = clock
          /\ (target_fps = 0 /\ run[t].pc = "write" /\ run'[t].pc # "write") =>
                /\ run'[t].pc = "emit"
                /\ _latest_frame' = run[t].frame
          /\ (target_fps = 0 /\ run[t].pc = "emit" /\ run'[t].pc # "emit") =>
                _last_emit_time' = run[t].now
      ]_vars

\* Rate 0: a second frame has been cached in the same second as the one
\* before it.
C21_Witness ==
    /\ target_fps = 0
    /\ _last_emit_time > 0
    /\ \E t \in Threads :
          /\ run[t].pc = "emit"
          /\ run[t].now = _last_emit_time
          /\ _latest_frame = run[t].frame

\* C22 as stated: when discovery has found no usable device it has made
\* exactly max_index index probes, each one open with one read attempt, and
\* one probe per listed device name, and has released every probed handle.
C22_TenIndexProbes ==
    \A t \in Threads :
        run[t].opc = "last_resort" =>
            /\ IndexProbes(t) = max_index
            /\ NameProbes(t) = Len(Enumerated)
            /\ open_caps = 0

\* C22 as amended: when discovery has found no usable device it has probed
\* exactly the indices 0..max_index-1, each with one open and one read
\* attempt per backend (two backends on Windows, one elsewhere), the
\* preferred name once when supplied on Windows, and each listed name once;
\* every probed handle is released, and discovery then returns a handle
\* opened on index 0.  The number of probes is bounded.
C22_ProbesThenIndexZero ==
    /\ [](\A t \in Threads :
            /\ run[t].probe_i <= Len(ProbePlan)
            /\ Len(ProbePlan) <= 1 + 2 * max_index + Len(pnp_devices)
            /\ run[t].opc = "last_resort" =>
                  /\ IndexProbes(t) =
                        max_index * (IF os_name = "nt" THEN 2 ELSE 1)
                  /\ {ProbePlan[k].target.index : k \in
                        {j \in 1..Probed(t) :
                            ProbePlan[j].target.kind = "index"}}
                        = 0..(max_index - 1)
                  /\ NameProbes(t) =
                        Len(Enumerated)
                          + (IF os_name = "nt" /\ camera_name # None
                             THEN 1 ELSE 0)
                  /\ open_caps = 0)
    /\ [][\A t \in Threads :
            (run[t].opc = "last_resort" /\ run'[t] # run[t]) =>
                /\ run'[t].cap.target = IndexDev(0)
                /\ run'[t].opc = "none"
                /\ open_caps' = 1
         ]_vars

\* Windows, a preferred name and a listed name, no device delivers a frame:
\* the loop reads from the handle discovery opened on index 0 as its last
\* resort.
C22_Witness ==
    /\ rtsp_url = "auto"
    /\ os_name = "nt"
    /\ camera_name # None
    /\ pnp_devices # << >>
    /\ open_caps = 1
    /\ \E t \in Threads :
          /\ run[t].pc = "read"
          /\ run[t].cap = VideoCapture(IndexDev(0), "MSMF")

\* C23: discovery opens its candidates in the order preferred name, index 0
\* primary backend, index 0 alternate backend, index 1 ..., listed names;
\* each candidate is opened with no other handle open, the first candidate
\* whose read succeeds is returned to the loop, and nothing is opened after
\* it in that discovery.
C23_ProbeOrder ==
    [][\A t \in Threads :
          /\ (run[t].opc = "probe" /\ run'[t] # run[t]) =>
                LET p == ProbePlan[run[t].probe_i] IN
                /\ open_caps = 0 /\ open_caps' = 1
                /\ run'[t].cap.target = p.target
                /\ run'[t].cap.backend = p.backend
                /\ run'[t].opc \in {"none", "probe_release"}
                /\ run'[t].opc = "none" => run'[t].pc = "check"
                /\ run[t].probe_i = 1 =>
                      Rank(p) = IF os_name = "nt" /\ camera_name # None
                                THEN 0 ELSE 1
                /\ run[t].probe_i > 1 =>
                      /\ Rank(ProbePlan[run[t].probe_i - 1]) < Rank(p)
                      /\ Rank(p) - Rank(ProbePlan[run[t].probe_i - 1])
                            <= IF p.target.kind = "index" /\ os_name = "nt"
                               THEN 1 ELSE 2
          /\ (run[t].opc = "probe_release" /\ run'[t] # run[t]) =>
                /\ open_caps' = 0
                /\ run'[t].cap = NoCap
      ]_vars

\* Every candidate before the listed name has failed and been released; the
\* listed name delivered a frame and its handle is the one open handle.
C23_Witness ==
    /\ open_caps = 1
    /\ \E t \in Threads :
          /\ run[t].pc = "check"
          /\ run[t].cap.target = NameDev("usbcam")

---------------------------------------------------------------------------
(* The /stream request *)

\* The event generator has not finished: it is at a statement of its loop
Generating == sse.pc \in {"read", "sleep", "infer", "capture", "yield"}

\* C24: a /stream request with max_frames = N > 0 never emits more than N
\* events; each event is emitted by the yield for a frame read() returned;
\* while the generator is in its loop fewer than N events have been
\* emitted; after the N-th event the generator leaves the loop by the
\* break, and a generator that ended by the break has emitted exactly N
\* events; one that ended with fewer was ended by an exception or by the
\* client.  This holds for every sequence of frames and Nones read()
\* returns.
C24_StreamEmitsExactlyN ==
    /\ [](sse.max_frames > 0 =>
            /\ sse.events <= sse.max_frames
            /\ Generating => sse.events = sse.count /\ sse.events < sse.max_frames
            /\ sse.pc = "suspended" => sse.events = sse.count + 1
            /\ sse.cause = "break" =>
                  sse.events = sse.max_frames /\ sse.count = sse.max_frames
            /\ sse.pc \in {"finally", "ended"} /\ sse.events < sse.max_frames =>
                  sse.cause \in {"exception", "closed"})
    /\ [][/\ sse'.events # sse.events =>
               /\ sse'.events = sse.events + 1
               /\ sse.pc = "yield" /\ sse.frame # NoFrame
          /\ sse.max_frames > 0 /\ sse.pc = "suspended"
               /\ sse.events = sse.max_frames /\ sse'.pc # "suspended" =>
               sse'.pc = "finally" /\ sse'.cause \in {"break", "closed"}
          /\ sse.pc \in {"finally", "ended"} => sse'.events = sse.events]_vars

\* A request for two events has ended by the break after two events, both
\* made from the same cached frame, and its reader has been stopped
C24_Witness ==
    /\ sse.pc = "ended"
    /\ sse.cause = "break"
    /\ sse.max_frames = 2
    /\ sse.events = 2
    /\ _stop_event

---------------------------------------------------------------------------
(* Who touches the capture handle *)

\* A step of start(), stop() or read(): the controller or a consumer moves
CallerStep ==
    \/ ctl' # ctl
    \/ _thread' # _thread
    \/ _stop_event' # _stop_event
    \/ reader_pc' # reader_pc
    \/ reader_ret' # reader_ret

\* A step of the capture loop of thread t
LoopStep(t) == is_alive(t) /\ run'[t] # run[t]

\* C25: a step of start(), stop() or read() opens and releases no handle
\* (the number of open handles and every loop's handle stay as they are),
\* takes no step of a running capture loop (it reads from no handle), and
\* leaves the source descriptor and the fallback flag alone; the handles,
\* the descriptor and the flag change only in steps of the capture loop's
\* own thread.
C25_OnlyLoopTouchesHandle ==
    [][/\ CallerStep =>
            /\ open_caps' = open_caps
            /\ \A t \in Threads : run'[t].cap = run[t].cap
            /\ \A t \in Threads : is_alive(t) => run'[t] = run[t]
            /\ _current_source' = _current_source
            /\ _using_fallback' = _using_fallback
       /\ (\/ open_caps' # open_caps
           \/ _current_source' # _current_source
           \/ _using_fallback' # _using_fallback
           \/ \E t \in Threads : run'[t].cap # run[t].cap) =>
            \E t \in Threads : LoopStep(t) /\ t = _thread]_vars

\* stop() waits for a loop that has switched to the fallback and holds a
\* handle, while a consumer is inside read()
C25_Witness ==
    /\ ctl.pc = "joining"
    /\ \E c \in Consumers : reader_pc[c] = "locked"
    /\ _using_fallback
    /\ open_caps = 1
    /\ run[_thread].pc = "read"

---------------------------------------------------------------------------
(* Reconnect *)

\* C26: the loop reads only while it holds a handle that is open, and that
\* handle was opened on the current descriptor; a failed read that does not
\* activate the fallback is followed by the release of the handle, then by
\* the sleep, which lasts the reconnect delay, then by an open with the
\* current descriptor, and only then by the stop check and the next read.
C26_ReadOnOpenHandle ==
    /\ [](\A t \in Threads :
            run[t].pc = "read" =>
               /\ run[t].cap # NoCap
               /\ open_caps = 1
               /\ run[t].cap.target = TargetOf(_current_source))
    /\ [][\A t \in Threads :
            /\ FailedRead(t) =>
                 (run'[t].pc = "release") = (_using_fallback' = _using_fallback)
            /\ run[t].pc = "release" /\ run'[t] # run[t] =>
                 /\ run'[t].pc = "sleeping"
                 /\ run'[t].cap = NoCap
                 /\ open_caps' = open_caps - 1
                 /\ run'[t].wake = clock + reconnect_delay * ticks_per_second
            /\ run[t].pc = "sleeping" /\ run'[t] # run[t] =>
                 /\ run'[t].pc = "open_reconnect"
                 /\ clock >= run[t].wake
                 /\ open_caps' = 0
            /\ run[t].pc = "open_reconnect" /\ run'[t].pc # "open_reconnect" =>
                 /\ run'[t].pc = "check"
                 /\ run'[t].cap.target = TargetOf(_current_source)
                 /\ open_caps' = 1
            /\ run'[t].pc = "read" /\ run[t].pc # "read" =>
                 run[t].pc = "check" /\ run[t].cap # NoCap]_vars

\* The loop reads again after one failed read, six seconds of sleep and a
\* reopen
C26_Witness ==
    /\ _thread # NoThread
    /\ reconnect_delay = 6
    /\ clock >= 1 + 6
    /\ run[_thread].pc = "read"
    /\ run[_thread].consecutive_failures = 1
    /\ run[_thread].cap.target = TargetOf(_current_source)

---------------------------------------------------------------------------
(* Stop *)

\* C27: when the stop signal is raised while a capture loop runs, and the
\* loop's reads, sleeps and opens return, the loop ends (start() clears the
\* signal only when no loop runs); and whenever no loop runs, no handle is
\* open.
C27_StopEventuallyHonoured ==
    /\ []((\A t \in Threads : ~is_alive(t)) => open_caps = 0)
    /\ \A t \in Threads : (_stop_event /\ is_alive(t)) ~> ~is_alive(t)

\* A loop that had failed reads and switched to the fallback has ended
\* after stop(), its handle released
C27_Witness ==
    /\ _stop_event
    /\ _thread # NoThread
    /\ run[_thread].pc = "done"
    /\ _using_fallback
    /\ open_caps = 0
    /\ ctl.pc = "idle"

\* stop() returns in this step although the loop thread is alive
TimedOutReturn ==
    /\ ctl.pc = "joining"
    /\ ctl'.pc = "idle"
    /\ is_alive(_thread)

\* C28, as stated: when stop() returns on the timeout with the loop blocked
\* in a read or in the reconnect sleep, the thread is alive and a handle is
\* open.
C28_TimedOutStopLeavesHandleOpen ==
    [][TimedOutReturn /\ run[_thread].pc \in {"read", "sleeping"} =>
          is_alive(_thread)' /\ open_caps' = 1]_vars

\* C28, amended: join does not outlast its 5 s timeout, and at the timeout
\* stop() can return; when it returns with the loop thread alive, 5 s have
\* passed, it returns None, the thread is as it was (alive, blocked where it
\* was), the handle it holds is open (it holds one in a read and none in
\* the reconnect sleep), and the stop signal is raised; the signal stays
\* raised while that loop is alive, and the loop leaves at its next stop
\* check.
C28_TimedOutStopAbandonsLoop ==
    /\ [](ctl.pc = "joining" =>
            /\ clock <= ctl.deadline
            /\ clock = ctl.deadline => ENABLED stop_return)
    /\ [][/\ TimedOutReturn =>
               /\ clock >= ctl.deadline
               /\ ctl'.ret = None
               /\ run' = run
               /\ open_caps' = open_caps
               /\ run[_thread].pc = "read" => open_caps' = 1
               /\ run[_thread].pc = "sleeping" => open_caps' = 0
               /\ _stop_event'
          /\ \A t \in Threads :
               /\ is_alive(t) /\ _stop_event => _stop_event'
               /\ _stop_event /\ run[t].pc = "check" /\ run'[t] # run[t] =>
                      run'[t].pc = "exit"]_vars

\* stop() has returned on the timeout: the loop is still blocked in its
\* read, its handle open, five seconds or more after the call
C28_Witness ==
    /\ _thread # NoThread
    /\ ctl.pc = "idle"
    /\ ctl.ret = None
    /\ _stop_event
    /\ is_alive(_thread)
    /\ run[_thread].pc = "read"
    /\ open_caps = 1
    /\ clock >= 1 + join_timeout

---------------------------------------------------------------------------
(* Throttle, over the life of a reader *)

\* C29: with a rate R > 0 the frame of a cache write was read at least 1/R
\* after the frame of the cache write before it, whatever happened between
\* the two (reconnects, the fallback switch, stop() and start()); the
\* last-emit time changes only when the loop records a cache write; and the
\* first successful read after construction is cached.
C29_WritesSpacedByInterval ==
    [][/\ \A t \in Threads :
            /\ run[t].pc = "write" /\ run'[t].pc = "emit"
                 /\ target_fps > 0 /\ written # NoFrame =>
                 (CaptureTime(written') - CaptureTime(written)) * target_fps
                     >= ticks_per_second
            /\ GoodRead(t) /\ written = NoFrame => run'[t].pc = "lock"
       /\ _last_emit_time' # _last_emit_time =>
            \E t \in Threads :
               /\ run[t].pc = "emit"
               /\ _last_emit_time' = run[t].now
               /\ run[t].now = CaptureTime(written)]_vars

\* At one frame per second a loop on the fallback has cached a frame read
\* exactly one second after the frame of the cache write before
C29_Witness ==
    /\ _thread # NoThread
    /\ target_fps = 1
    /\ _using_fallback
    /\ run[_thread].pc = "emit"
    /\ _last_emit_time > 0
    /\ (run[_thread].now - _last_emit_time) * target_fps = ticks_per_second

---------------------------------------------------------------------------
(* Hints *)

\* C30: every handle the source opener has returned to the capture loop
\* carries the requested width and height.
C30_HintsOnEveryHandle ==
    \A t \in Threads :
        run[t].pc \notin OpenSites /\ run[t].cap # NoCap =>
            /\ width # 0 => run[t].cap.width = width
            /\ height # 0 => run[t].cap.height = height

---------------------------------------------------------------------------
(* Fallback decline *)

\* C31: while the fallback flag is false and a fallback path is configured,
\* every failed read that brings the counter to 3 or more looks at the file
\* as it is then: if the file is missing the decline leaves the descriptor
\* and the flag as they were and the counter at its incremented value, and
\* the loop goes on to the normal reconnect; if the file exists, whether or
\* not it was missing at an earlier failed read, the loop switches to it.
C31_DeclinedFallbackRetried ==
    [][\A t \in Threads :
          ( /\ FailedRead(t)
            /\ ~_using_fallback
            /\ fallback_mp4_path # None
            /\ run[t].consecutive_failures + 1 >= max_failures_before_fallback )
          => IF fallback_exists
             THEN /\ _using_fallback'
                  /\ _current_source' = Absolute(fallback_mp4_path)
                  /\ run'[t].pc = "fb_release"
             ELSE /\ UNCHANGED <<_current_source, _using_fallback>>
                  /\ run'[t].consecutive_failures =
                         run[t].consecutive_failures + 1
                  /\ run'[t].pc = "release"]_vars

\* The switch has happened at the fourth failed read in a row: the third
\* was declined, the file has appeared since
C31_Witness ==
    /\ _thread # NoThread
    /\ _using_fallback
    /\ run[_thread].pc = "fb_release"
    /\ run[_thread].fails_since_ok = max_failures_before_fallback + 1
    /\ run[_thread].consecutive_failures = max_failures_before_fallback + 1

---------------------------------------------------------------------------
(* Concurrent start() *)

\* The capture loops that are running
Running == {t \in Threads : is_alive(t)}

\* C32: however the statements of concurrent start() calls interleave, at
\* most one capture loop runs, at most one handle is open, and the cache
\* has one writer.
C32_ConcurrentStartLaunchesOne ==
    /\ Cardinality(Running) <= 1
    /\ open_caps <= 1

---------------------------------------------------------------------------
(* start() after stop() *)

\* C33: whenever the last call to have returned is start(), the reader has
\* a live capture loop and the stop signal is clear.
C33_StartedReaderRuns ==
    ctl.pc = "idle" /\ ctl.ret = "self" =>
        /\ _thread # NoThread
        /\ is_alive(_thread)
        /\ ~_stop_event

---------------------------------------------------------------------------
(* The reader of a /stream request *)

\* stop() is called in this step
StopCalled == ctl.pc = "idle" /\ ctl'.pc = "joining"

---------------------------------------------------------------------------
(* Polling the cache *)

\* C35: an event is yielded only for a frame read() returned, and the
\* event count changes only at the yield; a read() of the empty cache sends
\* the generator to its sleep and from there to the next read(), with no
\* event; and once the cache holds a frame, a request with max_frames = N >
\* 0 that is neither ended by an exception nor closed by its client gets to
\* N events and to the call of stop(), whether or not the capture loop
\* writes another frame.
C35_PollsUntilFrameThenEmits ==
    /\ [][/\ sse'.events # sse.events =>
               sse.pc = "yield" /\ sse.frame # NoFrame
          /\ sse.pc = "read" /\ sse'.pc # "read" =>
               /\ sse'.frame = _latest_frame
               /\ sse'.pc = IF _latest_frame = NoFrame THEN "sleep" ELSE "infer"
               /\ sse'.events = sse.events
          /\ sse.pc = "sleep" /\ sse'.pc # "sleep" =>
               sse'.pc = "read" /\ sse'.events = sse.events]_vars
    /\ (sse.max_frames > 0 /\ _latest_frame # NoFrame
           /\ (Generating \/ sse.pc = "suspended"))
         ~> (\/ sse.cause \in {"exception", "closed"}
             \/ sse.events = sse.max_frames /\ _stop_event)

\* Two events have been made from one cached frame: the capture loop has
\* written the cache once, no time has passed since, and the request for
\* two events has ended by the break and stopped its reader
C35_Witness ==
    /\ sse.max_frames = 2
    /\ sse.events = 2
    /\ sse.cause = "break"
    /\ _stop_event
    /\ written = FrameAt(ticks_per_second)
    /\ clock = ticks_per_second

---------------------------------------------------------------------------
(* Delivery with retries *)

\* send() has returned
Returned == producer.pc = "returned"

\* C36: send makes at most max_retries + 1 delivery attempts; it returns
\* True at the first attempt that succeeds, which is then the last attempt;
\* it returns False after max_retries + 1 attempts that all failed with a
\* retryable backend error; and its result is True exactly if an attempt
\* succeeded.
C36_AtMostMaxRetriesPlusOneAttempts ==
    /\ producer.attempts <= producer.max_retries + 1
    /\ Len(producer.errors) = producer.attempts
    /\ \A i \in 1..Len(producer.errors) :
          producer.errors[i] = "ok" =>
              /\ i = Len(producer.errors)
              /\ Returned /\ producer.ret = TRUE
    /\ Returned => (producer.ret = TRUE) = producer.delivered
    /\ producer.delivered =
          (\E i \in 1..Len(producer.errors) : producer.errors[i] = "ok")
    /\ ( /\ producer.attempts > 0
         /\ producer.attempts = producer.max_retries + 1
         /\ \A i \in 1..Len(producer.errors) : producer.errors[i] = "retryable" )
       => Returned /\ producer.ret = FALSE

\* send has returned False after three attempts that all failed with a
\* backend error
C36_Witness ==
    /\ Returned
    /\ producer.ret = FALSE
    /\ producer.max_retries = 2
    /\ producer.errors = <<"retryable", "retryable", "retryable">>

\* C37: send never raises to its caller.
C37_SendNeverRaises == producer.pc # "raised"

\* C38: the sleep after failed attempt k lasts retry_backoff_ms * 2^k ms
\* (k = 0, 1, ...), one sleep after every failed attempt but the last, so
\* there are fewer sleeps than attempts and at most max_retries of them, and
\* none once send has returned.
C38_BackoffDoubles ==
    /\ [](/\ \A i \in 1..Len(producer.slept) :
                /\ producer.slept[i] = producer.retry_backoff_ms * Pow2(i - 1)
                /\ i > 1 => producer.slept[i] = 2 * producer.slept[i - 1]
          /\ Len(producer.slept) <= producer.max_retries
             \/ Len(producer.slept) = 0
          /\ Len(producer.slept) = producer.attempt
          /\ Returned /\ producer.attempts > 0 =>
                Len(producer.slept) = producer.attempts - 1)
    /\ [][/\ producer'.slept # producer.slept =>
               /\ producer.pc = "backoff"
               /\ producer.errors[Len(producer.errors)] = "retryable"
               /\ producer.attempt < producer.max_retries
          /\ Returned => producer'.slept = producer.slept]_vars

\* After sleeps of 250, 500 and 1000 ms the fourth attempt has failed and
\* send has returned with no fourth sleep
C38_Witness ==
    /\ Returned
    /\ producer.ret = FALSE
    /\ producer.slept = <<250, 500, 1000>>
    /\ producer.attempts = 4

---------------------------------------------------------------------------
(* Validation modes *)

\* The call has ended after the validator was obtained and asked
Validated ==
    /\ validation.pc \in {"returned", "raised"}
    /\ validation.inner # None

\* The event fails validation: jsonschema rejects it, or fails on it
FailsValidation ==
    validation.jsonschema /\ (~validation.valid \/ validation.fault)

---------------------------------------------------------------------------
(* Sampled captures *)

\* C40: with capture enabled and every_n = n > 1, after k calls exactly
\* floor(k/n) of them have gone on to write, and a call goes on to write
\* exactly if the count of calls, itself included, is a multiple of n; with
\* every_n <= 1 every call goes on to write; with capture disabled the
\* counter stays as it is and nothing is written; and a call ends by
\* returning, whether the write succeeded or failed.
C40_SamplesEveryNth ==
    /\ [](/\ capture.enabled /\ capture.every_n > 1 =>
                /\ capture.writes = capture._counter \div capture.every_n
                /\ capture._counter > 0 =>
                      (capture.last \in {"written", "failed"})
                         = (capture._counter % capture.every_n = 0)
          /\ capture.enabled /\ capture.every_n <= 1 =>
                /\ capture.writes = capture._counter
                /\ capture.last \in {"none", "written", "failed"}
          /\ ~capture.enabled =>
                /\ capture._counter = 0
                /\ capture.writes = 0
                /\ capture.last \in {"none", "disabled"}
          /\ capture.last \in {"none", "disabled", "skipped", "written",
                               "failed"})
    /\ [][capture' # capture /\ capture.enabled =>
             capture'._counter = capture._counter + 1]_vars

\* Seven calls with every_n = 3: two have gone on to write, the seventh was
\* skipped
C40_Witness ==
    /\ capture.enabled
    /\ capture.every_n = 3
    /\ capture._counter = 7
    /\ capture.writes = 2
    /\ capture.last = "skipped"

====
